---- MODULE Spec2Model ----
(***************************************************************************)
(* Draft generation core of sns-post-generater: the PostDraft entity, the  *)
(* CreateDraftUseCase, the DraftGenerationWorkflow and the adapters it is  *)
(* wired to (KvDraftRepository, QueueImageScheduler).                      *)
(*                                                                         *)
(* A JavaScript string is a sequence of one-character strings; " " is the  *)
(* whitespace character.  `undefined` is the marker Undefined, which is no *)
(* sequence of characters.  Several Workflow.run invocations interleave at *)
(* their awaits; everything between two awaits of one invocation is one    *)
(* step (JavaScript runs it to completion).                                *)
(***************************************************************************)
EXTENDS Integers, Sequences, FiniteSets, TLC

\* ---------------------------------------------------------------- bounds
\* Number of Workflow.run invocations that may be in progress together.
NumRuns == 2
\* Latest instant the clock of a PostDraft handled on its own reaches.
MaxClock == 1
\* Number of assignId calls made in a row on such a draft.
MaxAssigns == 2
\* Number of execute and save calls made in a row on a use case on its own.
MaxCalls == 2
\* Number of requests of the React app that may be awaiting their answer.
MaxFetches == 2

\* Instagram limit enforced by PostDraft.create.
MaxHashtags == 25
\* const DEFAULT_TTL_SECONDS = 60 * 60 * 24 * 7
DEFAULT_TTL_SECONDS == 60 * 60 * 24 * 7

Runs == 1..NumRuns

\* ---------------------------------------------------------------- strings
Undefined == <<"undefined">>
WS == " "

RECURSIVE trimStart(_)
trimStart(s) ==
  IF s # <<>> /\ Head(s) = WS THEN trimStart(Tail(s)) ELSE s

RECURSIVE trimEnd(_)
trimEnd(s) ==
  IF s # <<>> /\ s[Len(s)] = WS THEN trimEnd(SubSeq(s, 1, Len(s) - 1)) ELSE s

\* String.prototype.trim
trim(s) == trimEnd(trimStart(s))

\* Variant of optTrim that leaves the value as it came.
optTrimNone(v) == v

\* value?.trim()
optTrim(v) == IF v = Undefined THEN Undefined ELSE trim(v)

\* Variant of optTrimOrEmpty without the default.
optTrimNoDefault(v) == IF v = Undefined THEN Undefined ELSE trim(v)

\* value?.trim() ?? ""
optTrimOrEmpty(v) == IF v = Undefined THEN <<>> ELSE trim(v)

\* JavaScript truthiness of a string | undefined
truthy(v) == v # Undefined /\ v # <<>>

\* Array.prototype.filter(Boolean) on an array of strings
RECURSIVE filterBoolean(_)
filterBoolean(tags) ==
  IF tags = <<>> THEN <<>>
  ELSE IF truthy(Head(tags)) THEN <<Head(tags)>> \o filterBoolean(Tail(tags))
       ELSE filterBoolean(Tail(tags))

\* Variant of normalizeHashtags that trims the tags and keeps them all.
normalizeHashtagsUnfiltered(tags) ==
  IF tags = <<Undefined>> THEN <<Undefined>>
  ELSE [i \in 1..Len(tags) |-> trim(tags[i])]

\* hashtags?.map((tag) => tag.trim()).filter(Boolean)
normalizeHashtags(tags) ==
  IF tags = <<Undefined>> THEN <<Undefined>>
  ELSE filterBoolean([i \in 1..Len(tags) |-> trim(tags[i])])

\* ---------------------------------------------------------------- errors
\* Error messages, as sequences of words.
ThemeError == <<"theme", "must", "be", "a", "non-empty", "string">>
BrandVoiceError == <<"brandVoice", "must", "be", "a", "non-empty", "string">>
HashtagsError == <<"hashtags", "must", "be", "25", "items", "or", "fewer">>
MissingIdError == <<"Draft", "must", "have", "an", "id", "before", "persisting">>
\* Failures of the collaborators, opaque to the core.
GenerationError == <<"content", "generation", "failed">>
KvPutError == <<"KV", "put", "failed">>
QueueSendError == <<"queue", "send", "failed">>

names(message, word) == \E i \in 1..Len(message) : message[i] = word

\* ---------------------------------------------------------------- PostDraft
\* Date.prototype.toISOString of the clock value
toISOString(t) == <<ToString(t), "Z">>

\* Variant of create that validates brandVoice before theme.
createVoiceFirst(input, t) ==
  LET trimmedTheme == optTrim(input.theme)
      trimmedVoice == optTrim(input.brandVoice)
      hashtags == normalizeHashtags(input.hashtags)
  IN  IF ~truthy(trimmedVoice) THEN [ok |-> FALSE, error |-> BrandVoiceError]
      ELSE IF ~truthy(trimmedTheme) THEN [ok |-> FALSE, error |-> ThemeError]
      ELSE IF hashtags # <<Undefined>> /\ Len(hashtags) > MaxHashtags
        THEN [ok |-> FALSE, error |-> HashtagsError]
      ELSE [ok |-> TRUE,
            props |-> [id |-> Undefined,
                       theme |-> trimmedTheme,
                       brandVoice |-> trimmedVoice,
                       product |-> optTrimOrEmpty(input.product),
                       imagePrompt |-> optTrimOrEmpty(input.imagePrompt),
                       targetPersona |-> optTrimOrEmpty(input.targetPersona),
                       caption |-> optTrim(input.caption),
                       hashtags |-> hashtags,
                       altText |-> optTrim(input.altText),
                       status |-> "draft",
                       createdAt |-> toISOString(t)]]

\* PostDraft.create: [ok |-> TRUE, props |-> DraftProps] or [ok |-> FALSE, error |-> message]
create(input, t) ==
  LET trimmedTheme == optTrim(input.theme)
      trimmedVoice == optTrim(input.brandVoice)
      hashtags == normalizeHashtags(input.hashtags)
  IN  IF ~truthy(trimmedTheme) THEN [ok |-> FALSE, error |-> ThemeError]
      ELSE IF ~truthy(trimmedVoice) THEN [ok |-> FALSE, error |-> BrandVoiceError]
      ELSE IF hashtags # <<Undefined>> /\ Len(hashtags) > MaxHashtags
        THEN [ok |-> FALSE, error |-> HashtagsError]
      ELSE [ok |-> TRUE,
            props |-> [id |-> Undefined,
                       theme |-> trimmedTheme,
                       brandVoice |-> trimmedVoice,
                       product |-> optTrimOrEmpty(input.product),
                       imagePrompt |-> optTrimOrEmpty(input.imagePrompt),
                       targetPersona |-> optTrimOrEmpty(input.targetPersona),
                       caption |-> optTrim(input.caption),
                       hashtags |-> hashtags,
                       altText |-> optTrim(input.altText),
                       status |-> "draft",
                       createdAt |-> toISOString(t)]]

\* Variant of assignId that keeps an id already assigned.
assignIdKeepFirst(props, id) ==
  IF truthy(props.id) THEN props ELSE [props EXCEPT !.id = id]

\* Variant of assignId whose new draft is dropped: the receiver is used again.
assignIdDropped(props, id) == props

\* PostDraft.assignId: new PostDraft({ ...this.props, id })
assignId(props, id) == [props EXCEPT !.id = id]

\* Variant of toJSON that leaves the generated content out of the record.
toJSONWithoutContent(props) ==
  [f \in DOMAIN props \ {"caption", "hashtags", "altText"} |-> props[f]]

\* PostDraft.toJSON: { ...this.props }
toJSON(props) == [f \in DOMAIN props |-> props[f]]

\* Property order of DraftProps as `create` builds it.
PropOrder ==
  <<"id", "theme", "brandVoice", "product", "imagePrompt", "targetPersona",
    "caption", "hashtags", "altText", "status", "createdAt">>

isUndefined(f, json) ==
  IF f = "hashtags" THEN json[f] = <<Undefined>>
  ELSE IF f \in {"status", "createdAt"} THEN FALSE
  ELSE json[f] = Undefined

\* JSON.stringify of a DraftProps object: the properties in order, the
\* undefined ones dropped.
RECURSIVE stringifyFrom(_, _)
stringifyFrom(json, i) ==
  IF i > Len(PropOrder) THEN <<>>
  ELSE IF isUndefined(PropOrder[i], json) THEN stringifyFrom(json, i + 1)
       ELSE <<<<PropOrder[i], json[PropOrder[i]]>>>> \o stringifyFrom(json, i + 1)

stringify(json) == stringifyFrom(json, 1)

\* ---------------------------------------------------------------- inputs
\* Requests handed to Workflow.run.
Inputs ==
  { [theme |-> <<"a">>, brandVoice |-> <<"f">>, product |-> <<"x">>,
     imagePrompt |-> <<" ", "p", " ">>, targetPersona |-> <<"y">>],
    [theme |-> <<>>, brandVoice |-> <<"k">>, product |-> Undefined,
     imagePrompt |-> Undefined, targetPersona |-> Undefined],
    [theme |-> <<" ">>, brandVoice |-> <<>>, product |-> Undefined,
     imagePrompt |-> <<"p">>, targetPersona |-> Undefined],
    [theme |-> <<"a">>, brandVoice |-> <<" ">>, product |-> Undefined,
     imagePrompt |-> Undefined, targetPersona |-> Undefined],
    [theme |-> <<" ", "s", " ">>, brandVoice |-> <<"f", " ">>, product |-> Undefined,
     imagePrompt |-> <<" ">>, targetPersona |-> Undefined],
    [theme |-> <<"s">>, brandVoice |-> <<"f">>, product |-> <<" ", "x">>,
     imagePrompt |-> Undefined, targetPersona |-> Undefined] }

\* Contents a ContentGenerator may return.
GeneratedContents ==
  { [caption |-> <<"C", " ">>, hashtags |-> << <<" ", "a">>, <<" ">>, <<"b">> >>,
     altText |-> <<"A">>],
    [caption |-> <<"C">>, hashtags |-> [i \in 1..(MaxHashtags + 1) |-> <<"t">>],
     altText |-> <<"A">>] }

\* Identifiers an IdProvider may return.
Ids == {<<"d", "1">>, <<"d", "2">>}

\* ---------------------------------------------------------------- state
VARIABLES
  pc,         \* per run: where Workflow.run is suspended
  input,      \* per run: the DraftGenerationInput of the invocation
  draft,      \* per run: the PostDraft held by CreateDraftUseCase.execute
  summary,    \* per run: the DraftSummary held by Workflow.run
  sending,    \* per run: the input of the ImageScheduler.schedule call in flight
  result,     \* per run: what the caller of Workflow.run received
  calls,      \* per run: the port calls made so far, in order
  kv,         \* KVNamespace: entries [key, value, expirationTtl]
  queue,      \* messages sent to IMAGE_QUEUE
  queueBound, \* whether env.IMAGE_QUEUE is configured
  now,        \* the instant the injected clock returns from now()
  entity,     \* a PostDraft handled on its own: the calls made on it so far
  usecase,    \* a CreateDraftUseCase called on its own: its execute and save calls
  http,       \* the HTTP adapter serving one request
  ui          \* the draft generation feature of the React app: hook state and form

vars == <<pc, input, draft, summary, sending, result, calls, kv, queue, queueBound, now, entity, usecase, http, ui>>

NoInput == [theme |-> Undefined]
NoDraft == [id |-> Undefined]
NoSummary == [id |-> Undefined]
NoJob == [draftId |-> Undefined]
NoEntity == [phase |-> "none"]
NoUseCase == [phase |-> "none"]
NoRequest == [phase |-> "none"]
NoUi == [phase |-> "none"]
Pending == [kind |-> "pending"]
Returned(value) == [kind |-> "value", value |-> value]
Thrown(error) == [kind |-> "error", error |-> error]

\* A port call as a fake of the port observes it.  An awaited port logs
\* "invoke" when called and "ok" or "fail" when its promise settles; a
\* synchronous port logs "sync" with the value it returned.  val is the
\* identifier, error or job the event carries.
Call(port, phase, val) == [port |-> port, phase |-> phase, val |-> val]
NoVal == <<>>

\* Positions in the call log of run r of the events of a port and phase.
Events(r, port, phase) ==
  {i \in 1..Len(calls[r]) : calls[r][i].port = port /\ calls[r][i].phase = phase}

Count(r, port, phase) == Cardinality(Events(r, port, phase))

\* Variant of propagate that wraps the error in a new one.
propagateWrapped(error) == <<"Failed", "to", "generate", "draft:">> \o error

\* rethrow of a rejected await: no catch anywhere in run or execute
propagate(error) == error

\* KvDraftRepository.ttlSeconds as createDraftGenerationWorkflow wires it
ttlSeconds == DEFAULT_TTL_SECONDS

\* `draft:${json.id}`
keyOf(id) == <<"draft:">> \o id

\* Variant of put that adds the entry and keeps what the key held.
putKeepingOld(store, key, value, ttl) ==
  store \cup {[key |-> key, value |-> value, expirationTtl |-> ttl]}

\* kv.put(key, value, { expirationTtl })
put(store, key, value, ttl) ==
  {e \in store : e.key # key} \cup {[key |-> key, value |-> value, expirationTtl |-> ttl]}

\* { type: "generate_image", draftId, prompt }
message(job) == [type |-> "generate_image", draftId |-> job.draftId, prompt |-> job.prompt]

\* `${input.draftId}-image`
imageJobIdOf(draftId) == draftId \o <<"-image">>

\* Workflow.run up to its first await: the generate call.
startRun(in) ==
  [pc |-> "generate",
   generating |-> [theme |-> in.theme, brandVoice |-> in.brandVoice,
                   product |-> in.product, targetPersona |-> in.targetPersona],
   calls |-> <<Call("generate", "invoke", NoVal)>>]

\* Variant of orEmpty that gives the value as it is.
orEmptyKeep(v) == v

\* json.caption ?? "" and json.altText ?? ""
orEmpty(v) == IF v = Undefined THEN <<>> ELSE v
\* json.hashtags ?? []
orEmptyList(v) == IF v = <<Undefined>> THEN <<>> ELSE v

\* Variant of summaryOf that reports the storage key as the id.
summaryOfKeyed(d) ==
  LET json == toJSON(d)
  IN  [id |-> keyOf(json.id), status |-> json.status, caption |-> orEmpty(json.caption),
       hashtags |-> orEmptyList(json.hashtags), altText |-> orEmpty(json.altText),
       createdAt |-> json.createdAt]

\* CreateDraftUseCase.execute after save: the DraftSummary.
summaryOf(d) ==
  LET json == toJSON(d)
  IN  [id |-> json.id, status |-> json.status, caption |-> orEmpty(json.caption),
       hashtags |-> orEmptyList(json.hashtags), altText |-> orEmpty(json.altText),
       createdAt |-> json.createdAt]

\* Variant of promptOf that takes imagePrompt as it came.
promptOfUntrimmed(in) ==
  IF truthy(in.imagePrompt) THEN in.imagePrompt ELSE in.theme

\* input.imagePrompt?.trim() || input.theme
promptOf(in) ==
  IF truthy(optTrim(in.imagePrompt)) THEN optTrim(in.imagePrompt) ELSE in.theme

\* Variant of resumeAfterGenerate that draws the identifier before it
\* constructs the draft.
resumeAfterGenerateIdFirst(in, generated, id, t) ==
  LET draftInput == [theme |-> in.theme, brandVoice |-> in.brandVoice,
                     product |-> in.product, imagePrompt |-> in.imagePrompt,
                     targetPersona |-> in.targetPersona,
                     caption |-> generated.caption,
                     hashtags |-> generated.hashtags,
                     altText |-> generated.altText]
      created == create(draftInput, t)
  IN  IF ~created.ok
        THEN [pc |-> "failed", draft |-> NoDraft,
              result |-> Thrown(propagate(created.error)),
              calls |-> <<Call("next", "sync", id)>>]
        ELSE LET d == assignId(created.props, id)
                 made == <<Call("next", "sync", id), Call("now", "sync", NoVal),
                           Call("save", "invoke", d.id)>>
             IN  [pc |-> "save", draft |-> d, result |-> Pending, calls |-> made]

\* Variant of resumeAfterGenerate that starts schedule while save is still
\* in flight (execute is not awaited).
resumeAfterGenerateFanOut(in, generated, id, t) ==
  LET draftInput == [theme |-> in.theme, brandVoice |-> in.brandVoice,
                     product |-> in.product, imagePrompt |-> in.imagePrompt,
                     targetPersona |-> in.targetPersona,
                     caption |-> generated.caption,
                     hashtags |-> generated.hashtags,
                     altText |-> generated.altText]
      created == create(draftInput, t)
  IN  IF ~created.ok
        THEN [pc |-> "failed", draft |-> NoDraft,
              result |-> Thrown(propagate(created.error)), calls |-> <<>>]
        ELSE LET d == assignId(created.props, id)
                 made == <<Call("now", "sync", NoVal), Call("next", "sync", id),
                           Call("save", "invoke", d.id),
                           Call("schedule", "invoke",
                                [draftId |-> d.id, prompt |-> promptOf(in)])>>
             IN  [pc |-> "save", draft |-> d, result |-> Pending, calls |-> made]

\* Workflow.run from the resolution of generate to its next await: the
\* CreateDraftInput, then CreateDraftUseCase.execute up to kv.put.
resumeAfterGenerate(in, generated, id, t) ==
  LET draftInput == [theme |-> in.theme, brandVoice |-> in.brandVoice,
                     product |-> in.product, imagePrompt |-> in.imagePrompt,
                     targetPersona |-> in.targetPersona,
                     caption |-> generated.caption,
                     hashtags |-> generated.hashtags,
                     altText |-> generated.altText]
      created == create(draftInput, t)
  IN  IF ~created.ok
        THEN [pc |-> "failed", draft |-> NoDraft,
              result |-> Thrown(propagate(created.error)), calls |-> <<>>]
        ELSE LET d == assignId(created.props, id)
                 json == toJSON(d)
                 made == <<Call("now", "sync", NoVal), Call("next", "sync", id),
                           Call("save", "invoke", d.id)>>
             IN  IF ~truthy(json.id)
                   THEN [pc |-> "failed", draft |-> NoDraft,
                         result |-> Thrown(propagate(MissingIdError)),
                         calls |-> made \o <<Call("save", "fail", MissingIdError)>>]
                   ELSE [pc |-> "save", draft |-> d, result |-> Pending, calls |-> made]

\* Variant of resumeAfterSave that hands the KV key to schedule as draftId.
resumeAfterSaveKeyAsId(in, d) ==
  LET s == summaryOf(d)
      job == [draftId |-> keyOf(s.id), prompt |-> promptOf(in)]
  IN  [pc |-> "schedule", summary |-> s, sending |-> job,
       calls |-> <<Call("save", "ok", d.id), Call("schedule", "invoke", job)>>]

\* Workflow.run from the resolution of execute to its next await: the
\* schedule call.
resumeAfterSave(in, d) ==
  LET s == summaryOf(d)
      job == [draftId |-> s.id, prompt |-> promptOf(in)]
  IN  [pc |-> "schedule", summary |-> s, sending |-> job,
       calls |-> <<Call("save", "ok", d.id), Call("schedule", "invoke", job)>>]

\* Variant of resumeAfterSchedule that returns the summary with the image
\* job id merged into it.
resumeAfterScheduleWithJob(s, scheduled) ==
  [pc |-> "returned",
   result |-> Returned([f \in DOMAIN s \cup {"imageJobId"} |->
                          IF f = "imageJobId" THEN scheduled.imageJobId ELSE s[f]]),
   calls |-> <<Call("schedule", "ok", scheduled.imageJobId)>>]

\* Workflow.run after schedule resolved: return draft.
resumeAfterSchedule(s, scheduled) ==
  [pc |-> "returned", result |-> Returned(s),
   calls |-> <<Call("schedule", "ok", scheduled.imageJobId)>>]

\* A rejected await in Workflow.run: the rejection leaves run as it came.
abort(port, error) ==
  [pc |-> "failed", result |-> Thrown(propagate(error)),
   calls |-> <<Call(port, "fail", error)>>]

Init ==
  /\ pc = [r \in Runs |-> "idle"]
  /\ input = [r \in Runs |-> NoInput]
  /\ draft = [r \in Runs |-> NoDraft]
  /\ summary = [r \in Runs |-> NoSummary]
  /\ sending = [r \in Runs |-> NoJob]
  /\ result = [r \in Runs |-> Pending]
  /\ calls = [r \in Runs |-> <<>>]
  /\ kv = {}
  /\ queue = <<>>
  /\ queueBound \in BOOLEAN
  /\ now = 0
  /\ entity = NoEntity
  /\ usecase = NoUseCase
  /\ http = NoRequest
  /\ ui = NoUi

\* The caller invokes workflow.run(input).
Run(r) ==
  /\ pc[r] = "idle"
  /\ \E in \in Inputs :
       LET next == startRun(in)
       IN  /\ input' = [input EXCEPT ![r] = in]
           /\ pc' = [pc EXCEPT ![r] = next.pc]
           /\ calls' = [calls EXCEPT ![r] = @ \o next.calls]
  /\ UNCHANGED <<draft, summary, sending, result, kv, queue, queueBound, now, entity, usecase, http, ui>>

\* contentGenerator.generate resolves.
GenerateResolve(r) ==
  /\ pc[r] = "generate"
  /\ \E generated \in GeneratedContents, id \in Ids :
       LET next == resumeAfterGenerate(input[r], generated, id, now)
       IN  /\ pc' = [pc EXCEPT ![r] = next.pc]
           /\ draft' = [draft EXCEPT ![r] = next.draft]
           /\ result' = [result EXCEPT ![r] = next.result]
           /\ calls' = [calls EXCEPT ![r] =
                          @ \o <<Call("generate", "ok", NoVal)>> \o next.calls]
  /\ UNCHANGED <<input, summary, sending, kv, queue, queueBound, now, entity, usecase, http, ui>>

\* Variant of GenerateReject that catches the rejection and goes on with
\* empty content.
GenerateRejectFallback(r) ==
  /\ pc[r] = "generate"
  /\ \E id \in Ids :
       LET next == resumeAfterGenerate(
                     input[r], [caption |-> <<>>, hashtags |-> <<>>, altText |-> <<>>],
                     id, now)
       IN  /\ pc' = [pc EXCEPT ![r] = next.pc]
           /\ draft' = [draft EXCEPT ![r] = next.draft]
           /\ result' = [result EXCEPT ![r] = next.result]
           /\ calls' = [calls EXCEPT ![r] =
                          @ \o <<Call("generate", "fail", GenerationError)>> \o next.calls]
  /\ UNCHANGED <<input, summary, sending, kv, queue, queueBound, now, entity, usecase, http, ui>>

\* contentGenerator.generate rejects.
GenerateReject(r) ==
  /\ pc[r] = "generate"
  /\ LET next == abort("generate", GenerationError)
     IN  /\ pc' = [pc EXCEPT ![r] = next.pc]
         /\ result' = [result EXCEPT ![r] = next.result]
         /\ calls' = [calls EXCEPT ![r] = @ \o next.calls]
  /\ UNCHANGED <<input, draft, summary, sending, kv, queue, queueBound, now, entity, usecase, http, ui>>

\* Variant of KvPutResolve in which the use case keeps the draft it is
\* working on in a field all invocations share: execute builds its summary
\* from whichever draft was put there last.
KvPutResolveShared(r) ==
  /\ pc[r] = "save"
  /\ kv' = put(kv, keyOf(toJSON(draft[r]).id), stringify(toJSON(draft[r])), ttlSeconds)
  /\ \E last \in Runs :
       /\ draft[last] # NoDraft
       /\ LET next == resumeAfterSave(input[r], draft[last])
          IN  /\ pc' = [pc EXCEPT ![r] = next.pc]
              /\ summary' = [summary EXCEPT ![r] = next.summary]
              /\ sending' = [sending EXCEPT ![r] = next.sending]
              /\ calls' = [calls EXCEPT ![r] = @ \o next.calls]
  /\ UNCHANGED <<input, draft, result, queue, queueBound, now, entity, usecase, http, ui>>

\* Variant of KvPutResolve in which the repository refuses to write over a
\* key that holds a record already.
KvPutResolveIfAbsent(r) ==
  /\ pc[r] = "save"
  /\ IF \E e \in kv : e.key = keyOf(toJSON(draft[r]).id)
       THEN /\ LET next == abort("save", <<"Draft", "already", "exists">>)
               IN  /\ pc' = [pc EXCEPT ![r] = next.pc]
                   /\ result' = [result EXCEPT ![r] = next.result]
                   /\ calls' = [calls EXCEPT ![r] = @ \o next.calls]
            /\ UNCHANGED <<kv, summary, sending>>
       ELSE /\ kv' = put(kv, keyOf(toJSON(draft[r]).id), stringify(toJSON(draft[r])),
                         ttlSeconds)
            /\ LET next == resumeAfterSave(input[r], draft[r])
               IN  /\ pc' = [pc EXCEPT ![r] = next.pc]
                   /\ summary' = [summary EXCEPT ![r] = next.summary]
                   /\ sending' = [sending EXCEPT ![r] = next.sending]
                   /\ calls' = [calls EXCEPT ![r] = @ \o next.calls]
            /\ UNCHANGED result
  /\ UNCHANGED <<input, draft, queue, queueBound, now, entity, usecase, http, ui>>

\* kv.put resolves: the record is stored, save and execute return.
KvPutResolve(r) ==
  /\ pc[r] = "save"
  /\ kv' = put(kv, keyOf(toJSON(draft[r]).id), stringify(toJSON(draft[r])), ttlSeconds)
  /\ LET next == resumeAfterSave(input[r], draft[r])
     IN  /\ pc' = [pc EXCEPT ![r] = next.pc]
         /\ summary' = [summary EXCEPT ![r] = next.summary]
         /\ sending' = [sending EXCEPT ![r] = next.sending]
         /\ calls' = [calls EXCEPT ![r] = @ \o next.calls]
  /\ UNCHANGED <<input, draft, result, queue, queueBound, now, entity, usecase, http, ui>>

\* Variant of KvPutReject that swallows the rejection: execute returns its
\* summary and run goes on to schedule.
KvPutRejectSwallowed(r) ==
  /\ pc[r] = "save"
  /\ LET next == resumeAfterSave(input[r], draft[r])
     IN  /\ pc' = [pc EXCEPT ![r] = next.pc]
         /\ summary' = [summary EXCEPT ![r] = next.summary]
         /\ sending' = [sending EXCEPT ![r] = next.sending]
         /\ calls' = [calls EXCEPT ![r] =
                        @ \o <<Call("save", "fail", KvPutError),
                               Call("schedule", "invoke", next.sending)>>]
  /\ UNCHANGED <<input, draft, result, kv, queue, queueBound, now, entity, usecase, http, ui>>

\* Variant of KvPutReject that calls save once more before giving up.
KvPutRejectRetry(r) ==
  /\ pc[r] = "save"
  /\ IF Count(r, "save", "invoke") < 2
       THEN /\ calls' = [calls EXCEPT ![r] =
                           @ \o <<Call("save", "fail", KvPutError),
                                  Call("save", "invoke", draft[r].id)>>]
            /\ UNCHANGED <<pc, result>>
       ELSE LET next == abort("save", KvPutError)
            IN  /\ pc' = [pc EXCEPT ![r] = next.pc]
                /\ result' = [result EXCEPT ![r] = next.result]
                /\ calls' = [calls EXCEPT ![r] = @ \o next.calls]
  /\ UNCHANGED <<input, draft, summary, sending, kv, queue, queueBound, now, entity, usecase, http, ui>>

\* kv.put rejects: nothing is stored, the rejection leaves save, execute and run.
KvPutReject(r) ==
  /\ pc[r] = "save"
  /\ LET next == abort("save", KvPutError)
     IN  /\ pc' = [pc EXCEPT ![r] = next.pc]
         /\ result' = [result EXCEPT ![r] = next.result]
         /\ calls' = [calls EXCEPT ![r] = @ \o next.calls]
  /\ UNCHANGED <<input, draft, summary, sending, kv, queue, queueBound, now, entity, usecase, http, ui>>

\* Variant of ScheduleResolve that rejects when no queue is bound.
ScheduleResolveStrict(r) ==
  /\ pc[r] = "schedule"
  /\ queue' = IF queueBound THEN Append(queue, message(sending[r])) ELSE queue
  /\ LET next == IF queueBound
                   THEN resumeAfterSchedule(summary[r],
                          [imageJobId |-> imageJobIdOf(sending[r].draftId)])
                   ELSE abort("schedule", <<"IMAGE_QUEUE", "is", "not", "configured">>)
     IN  /\ pc' = [pc EXCEPT ![r] = next.pc]
         /\ result' = [result EXCEPT ![r] = next.result]
         /\ calls' = [calls EXCEPT ![r] = @ \o next.calls]
  /\ UNCHANGED <<input, draft, summary, sending, kv, queueBound, now, entity, usecase, http, ui>>

\* Variant of ScheduleResolve that does not await queue.send: schedule
\* returns while the message is not on the queue.
ScheduleResolveNoAwait(r) ==
  /\ pc[r] = "schedule"
  /\ queue' = queue
  /\ LET next == resumeAfterSchedule(summary[r],
                                     [imageJobId |-> imageJobIdOf(sending[r].draftId)])
     IN  /\ pc' = [pc EXCEPT ![r] = next.pc]
         /\ result' = [result EXCEPT ![r] = next.result]
         /\ calls' = [calls EXCEPT ![r] = @ \o next.calls]
  /\ UNCHANGED <<input, draft, summary, sending, kv, queueBound, now, entity, usecase, http, ui>>

\* Variant of ScheduleResolve that waits for a queue to be bound: without
\* one the promise of schedule stays pending.
ScheduleResolveBoundOnly(r) ==
  /\ pc[r] = "schedule"
  /\ queueBound
  /\ queue' = Append(queue, message(sending[r]))
  /\ LET next == resumeAfterSchedule(summary[r],
                                     [imageJobId |-> imageJobIdOf(sending[r].draftId)])
     IN  /\ pc' = [pc EXCEPT ![r] = next.pc]
         /\ result' = [result EXCEPT ![r] = next.result]
         /\ calls' = [calls EXCEPT ![r] = @ \o next.calls]
  /\ UNCHANGED <<input, draft, summary, sending, kv, queueBound, now, entity, usecase, http, ui>>

\* QueueImageScheduler.schedule resolves: after queue.send when a queue is
\* bound, at once when none is.
ScheduleResolve(r) ==
  /\ pc[r] = "schedule"
  /\ queue' = IF queueBound THEN Append(queue, message(sending[r])) ELSE queue
  /\ LET next == resumeAfterSchedule(summary[r],
                                     [imageJobId |-> imageJobIdOf(sending[r].draftId)])
     IN  /\ pc' = [pc EXCEPT ![r] = next.pc]
         /\ result' = [result EXCEPT ![r] = next.result]
         /\ calls' = [calls EXCEPT ![r] = @ \o next.calls]
  /\ UNCHANGED <<input, draft, summary, sending, kv, queueBound, now, entity, usecase, http, ui>>

\* Variant of QueueSendReject that deletes the stored draft before failing.
QueueSendRejectCompensate(r) ==
  /\ pc[r] = "schedule"
  /\ queueBound
  /\ kv' = {e \in kv : e.key # keyOf(draft[r].id)}
  /\ LET next == abort("schedule", QueueSendError)
     IN  /\ pc' = [pc EXCEPT ![r] = next.pc]
         /\ result' = [result EXCEPT ![r] = next.result]
         /\ calls' = [calls EXCEPT ![r] = @ \o next.calls]
  /\ UNCHANGED <<input, draft, summary, sending, queue, queueBound, now, entity, usecase, http, ui>>

\* Variant of QueueSendReject that isolates the failure: run still returns
\* the summary.
QueueSendRejectIsolated(r) ==
  /\ pc[r] = "schedule"
  /\ queueBound
  /\ pc' = [pc EXCEPT ![r] = "returned"]
  /\ result' = [result EXCEPT ![r] = Returned(summary[r])]
  /\ calls' = [calls EXCEPT ![r] = @ \o <<Call("schedule", "fail", QueueSendError)>>]
  /\ UNCHANGED <<input, draft, summary, sending, kv, queue, queueBound, now, entity, usecase, http, ui>>

\* queue.send rejects: schedule and run reject.
QueueSendReject(r) ==
  /\ pc[r] = "schedule"
  /\ queueBound
  /\ LET next == abort("schedule", QueueSendError)
     IN  /\ pc' = [pc EXCEPT ![r] = next.pc]
         /\ result' = [result EXCEPT ![r] = next.result]
         /\ calls' = [calls EXCEPT ![r] = @ \o next.calls]
  /\ UNCHANGED <<input, draft, summary, sending, kv, queue, queueBound, now, entity, usecase, http, ui>>

Next ==
  \/ \E r \in Runs : Run(r)
  \/ \E r \in Runs : GenerateResolve(r)
  \/ \E r \in Runs : GenerateReject(r)
  \/ \E r \in Runs : KvPutResolve(r)
  \/ \E r \in Runs : KvPutReject(r)
  \/ \E r \in Runs : ScheduleResolve(r)
  \/ \E r \in Runs : QueueSendReject(r)

Spec == Init /\ [][Next]_vars

\* The promise of the port call a run is waiting for settles: it resolves
\* or rejects, and the run goes on from its await.
Settles(r) ==
  \/ GenerateReject(r)
  \/ KvPutReject(r)
  \/ ScheduleResolve(r)
  \/ QueueSendReject(r)
  \/ KvPutResolve(r)
  \/ GenerateResolve(r)

\* The workflow with collaborators of which every call settles, and an
\* event loop that runs the continuation of a settled promise.
LiveSpec == Spec /\ \A r \in Runs : WF_vars(Settles(r))

\* ---------------------------------------------------------------- PostDraft on its own
\* A caller outside the workflow constructs one PostDraft and calls its
\* methods: create once, then assignId and toJSON in any order.  entity
\* records what the caller holds: the input it gave, the error thrown or
\* the draft create returned (created), the receiver of the last assignId
\* call and the draft that call returned (draft), the record of the last
\* toJSON call (json), the identifiers given so far (assigned) and the
\* instants clock.now() returned (reads).
Themes == {<<>>, <<" ">>, <<" ", "s", " ">>, <<"a">>}
Voices == {<<>>, <<" ">>, <<"f", " ">>}
Products == {Undefined, <<" ">>, <<" ", "x">>}
ImagePrompts == {Undefined, <<"p", " ">>}
Personas == {Undefined, <<"y">>}
Captions == {Undefined, <<"C", " ">>}
AltTexts == {Undefined, <<" ", "A">>}

\* A tag that differs from every other tag of its list.
tag(i) == <<"t", ToString(i)>>

HashtagLists ==
  { <<Undefined>>,
    <<>>,
    << <<" ", "a">>, <<" ">>, <<"b", " ">>, <<>> >>,
    [i \in 1..(MaxHashtags + 1) |-> IF i = 2 THEN <<" ">> ELSE tag(i)],
    [i \in 1..(MaxHashtags + 1) |-> tag(i)] }

CreateDraftInputs ==
  [theme : Themes, brandVoice : Voices, product : Products,
   imagePrompt : ImagePrompts, targetPersona : Personas,
   caption : Captions, hashtags : HashtagLists, altText : AltTexts]

workflowVars == <<pc, input, draft, summary, sending, result, calls, kv, queue, queueBound>>

DraftInit ==
  /\ pc = [r \in Runs |-> "idle"]
  /\ input = [r \in Runs |-> NoInput]
  /\ draft = [r \in Runs |-> NoDraft]
  /\ summary = [r \in Runs |-> NoSummary]
  /\ sending = [r \in Runs |-> NoJob]
  /\ result = [r \in Runs |-> Pending]
  /\ calls = [r \in Runs |-> <<>>]
  /\ kv = {}
  /\ queue = <<>>
  /\ queueBound = FALSE
  /\ now = 0
  /\ entity = NoEntity
  /\ usecase = NoUseCase
  /\ http = NoRequest
  /\ ui = NoUi

\* Time passes on the injected clock.
Tick ==
  /\ now < MaxClock
  /\ now' = now + 1
  /\ UNCHANGED <<workflowVars, entity, usecase, http, ui>>

\* PostDraft.create(input, clock): throws, or reads the clock and returns
\* the draft.
CallCreate ==
  /\ entity.phase = "none"
  /\ \E in \in CreateDraftInputs :
       LET made == create(in, now)
       IN  entity' =
             IF made.ok
               THEN [phase |-> "created", in |-> in, created |-> made.props,
                     receiver |-> NoDraft, draft |-> made.props, json |-> NoDraft,
                     assigned |-> <<>>, reads |-> <<now>>]
               ELSE [phase |-> "failed", in |-> in, error |-> made.error, reads |-> <<>>]
  /\ UNCHANGED <<workflowVars, now, usecase, http, ui>>

\* Variant of CallAssignId in which assignId reads the clock again and
\* stamps the draft it returns.
CallAssignIdRestamped(id) ==
  /\ entity.phase = "created"
  /\ Len(entity.assigned) < MaxAssigns
  /\ entity' = [entity EXCEPT !.receiver = entity.draft,
                              !.draft = [assignId(entity.draft, id) EXCEPT
                                           !.createdAt = toISOString(now)],
                              !.assigned = Append(@, id),
                              !.reads = Append(@, now)]
  /\ UNCHANGED <<workflowVars, now, usecase, http, ui>>

\* Variant of CallAssignId in which assignId sets the id on the receiver
\* and returns it.
CallAssignIdInPlace(id) ==
  /\ entity.phase = "created"
  /\ Len(entity.assigned) < MaxAssigns
  /\ entity' = [entity EXCEPT !.receiver = assignId(entity.draft, id),
                              !.draft = assignId(entity.draft, id),
                              !.assigned = Append(@, id)]
  /\ UNCHANGED <<workflowVars, now, usecase, http, ui>>

\* draft.assignId(id) on the draft the caller holds; the caller keeps the
\* receiver and the draft returned.
CallAssignId(id) ==
  /\ entity.phase = "created"
  /\ Len(entity.assigned) < MaxAssigns
  /\ entity' = [entity EXCEPT !.receiver = entity.draft,
                              !.draft = assignId(entity.draft, id),
                              !.assigned = Append(@, id)]
  /\ UNCHANGED <<workflowVars, now, usecase, http, ui>>

\* draft.toJSON() on the draft the caller holds.
CallToJSON ==
  /\ entity.phase = "created"
  /\ entity' = [entity EXCEPT !.json = toJSON(entity.draft)]
  /\ UNCHANGED <<workflowVars, now, usecase, http, ui>>

DraftNext ==
  \/ Tick
  \/ CallCreate
  \/ \E id \in Ids : CallAssignId(id)
  \/ CallToJSON

DraftSpec == DraftInit /\ [][DraftNext]_vars

\* ---------------------------------------------------------------- CreateDraftUseCase on its own
\* A caller outside the workflow wires a CreateDraftUseCase to a
\* KvDraftRepository over the store kv, then calls execute, or save on the
\* repository, one call after the other.  usecase records the TTL the
\* repository was constructed with, the number of calls made, and of the
\* last call: which it was (op), the draft given to save, and the summary
\* returned or the error thrown.
TtlChoices == {DEFAULT_TTL_SECONDS, 60}

\* What an IdProvider may return: any string, the empty one included.
ProvidedIds == Ids \cup {<<>>}

ExecuteInputs ==
  { [theme |-> <<" ", "s", " ">>, brandVoice |-> <<"f">>, product |-> <<"x">>,
     imagePrompt |-> Undefined, targetPersona |-> Undefined,
     caption |-> <<"C", " ">>, hashtags |-> << <<" ", "a">>, <<" ">>, <<"b">> >>,
     altText |-> <<" ", "A">>],
    [theme |-> <<"a">>, brandVoice |-> <<"f">>, product |-> Undefined,
     imagePrompt |-> <<"p">>, targetPersona |-> Undefined,
     caption |-> Undefined, hashtags |-> <<Undefined>>, altText |-> Undefined],
    [theme |-> <<" ">>, brandVoice |-> <<"f">>, product |-> Undefined,
     imagePrompt |-> Undefined, targetPersona |-> Undefined,
     caption |-> <<"C">>, hashtags |-> <<>>, altText |-> <<"A">>] }

\* Variant of save that does not look at the id.
saveUnchecked(d) ==
  LET json == toJSON(d)
  IN  [ok |-> TRUE, key |-> keyOf(json.id), value |-> stringify(json)]

\* KvDraftRepository.save up to its await: the id check, then the
\* arguments of kv.put.
save(d) ==
  LET json == toJSON(d)
  IN  IF ~truthy(json.id)
        THEN [ok |-> FALSE, error |-> MissingIdError]
        ELSE [ok |-> TRUE, key |-> keyOf(json.id), value |-> stringify(json)]

\* The caller's view once save has been called with draft d.
afterSaveCall(op, d) ==
  IF save(d).ok
    THEN [usecase EXCEPT !.phase = "saving", !.op = op, !.draft = d,
                         !.calls = @ + 1, !.error = <<>>, !.summary = NoSummary]
    ELSE [usecase EXCEPT !.phase = "failed", !.op = op, !.draft = d,
                         !.calls = @ + 1, !.error = propagate(save(d).error),
                         !.summary = NoSummary]

UseCaseInit ==
  /\ pc = [r \in Runs |-> "idle"]
  /\ input = [r \in Runs |-> NoInput]
  /\ draft = [r \in Runs |-> NoDraft]
  /\ summary = [r \in Runs |-> NoSummary]
  /\ sending = [r \in Runs |-> NoJob]
  /\ result = [r \in Runs |-> Pending]
  /\ calls = [r \in Runs |-> <<>>]
  /\ kv = {}
  /\ queue = <<>>
  /\ queueBound = FALSE
  /\ now = 0
  /\ entity = NoEntity
  /\ http = NoRequest
  /\ ui = NoUi
  /\ \E ttl \in TtlChoices :
       usecase = [phase |-> "ready", ttl |-> ttl, calls |-> 0, op |-> "none",
                  draft |-> NoDraft, error |-> <<>>, summary |-> NoSummary]

useCaseFrame == <<pc, input, draft, summary, sending, result, calls, queue, queueBound,
                  now, entity, http, ui>>

\* execute(input): create, assignId, then save up to kv.put.
CallExecute ==
  /\ usecase.phase \in {"ready", "returned", "failed"}
  /\ usecase.calls < MaxCalls
  /\ \E in \in ExecuteInputs, id \in ProvidedIds :
       LET made == create(in, now)
       IN  usecase' =
             IF made.ok
               THEN afterSaveCall("execute", assignId(made.props, id))
               ELSE [usecase EXCEPT !.phase = "failed", !.op = "execute",
                                    !.draft = NoDraft, !.calls = @ + 1,
                                    !.error = propagate(made.error),
                                    !.summary = NoSummary]
  /\ UNCHANGED <<kv, useCaseFrame>>

\* repository.save(draft) with a draft as PostDraft.create returned it, or
\* with an id assigned to it.
CallSave ==
  /\ usecase.phase \in {"ready", "returned", "failed"}
  /\ usecase.calls < MaxCalls
  /\ \E in \in ExecuteInputs, id \in ProvidedIds \cup {Undefined} :
       /\ create(in, now).ok
       /\ usecase' = afterSaveCall("save",
                        IF id = Undefined THEN create(in, now).props
                        ELSE assignId(create(in, now).props, id))
  /\ UNCHANGED <<kv, useCaseFrame>>

\* kv.put resolves: the entry is stored; save returns, and execute returns
\* its summary.
PutResolve ==
  /\ usecase.phase = "saving"
  /\ kv' = put(kv, save(usecase.draft).key, save(usecase.draft).value, usecase.ttl)
  /\ usecase' = [usecase EXCEPT !.phase = "returned",
                                !.summary = IF usecase.op = "execute"
                                              THEN summaryOf(usecase.draft)
                                              ELSE NoSummary]
  /\ UNCHANGED useCaseFrame

\* kv.put rejects: save and execute reject with its error.
PutReject ==
  /\ usecase.phase = "saving"
  /\ usecase' = [usecase EXCEPT !.phase = "failed", !.error = propagate(KvPutError)]
  /\ UNCHANGED <<kv, useCaseFrame>>

UseCaseNext ==
  \/ CallExecute
  \/ CallSave
  \/ PutResolve
  \/ PutReject

UseCaseSpec == UseCaseInit /\ [][UseCaseNext]_vars

\* ---------------------------------------------------------------- HTTP adapter
\* createApp(factory) with an injected workflow, as the route test wires
\* it, serving one POST /api/v1/generate request.  A JSON value is a record
\* [t, v]: its type and, for a string, its characters.  A request body is
\* text that does not parse (kind "malformed") or a JSON value of the kind
\* given; an object carries the five fields the adapter reads, each a JSON
\* value or missing.  http records the body, how often the factory and
\* workflow.run were called and with what, what run gave back or threw, and
\* the response.
Str(s) == [t |-> "string", v |-> s]
Num == [t |-> "number", v |-> <<>>]
Null == [t |-> "null", v |-> <<>>]
Missing == [t |-> "undefined", v |-> <<>>]

RequestBodies ==
  {[kind |-> k] : k \in {"malformed", "null", "string", "number", "array"}}
  \cup [kind : {"object"},
        theme : {Missing, Num, Str(<<>>), Str(<<" ">>), Str(<<" ", "s", " ">>),
                 Str(<<"S", " ", "s">>)},
        brandVoice : {Missing, Null, Str(<<" ">>), Str(<<"f", " ">>)},
        product : {Missing, Num, Str(<<" ">>), Str(<<" ", "x">>), Str(<<"S", "s">>)},
        imagePrompt : {Missing, Str(<<"p", " ">>)},
        targetPersona : {Missing, Str(<<"y">>)}]

\* payload.theme and the like: a property of the parsed value.
prop(raw, field) == IF raw.kind = "object" THEN raw[field] ELSE Missing

InvalidJsonError == <<"Invalid", "JSON", "payload">>
PayloadError == <<"Payload", "must", "be", "an", "object">>
UnknownError == <<"Unknown", "error">>
mustBeString(field) == <<field, "must", "be", "a", "non-empty", "string">>

\* Variant of ensureString that tests the length without trimming.
ensureStringUntrimmed(value, field) ==
  IF value.t # "string" \/ Len(value.v) = 0
    THEN [ok |-> FALSE, error |-> mustBeString(field)]
    ELSE [ok |-> TRUE, value |-> trim(value.v)]

\* Variant of ensureString that tests the type only.
ensureStringTypeOnly(value, field) ==
  IF value.t # "string"
    THEN [ok |-> FALSE, error |-> mustBeString(field)]
    ELSE [ok |-> TRUE, value |-> trim(value.v)]

\* typeof value !== "string" || value.trim().length === 0
ensureString(value, field) ==
  IF value.t # "string" \/ Len(trim(value.v)) = 0
    THEN [ok |-> FALSE, error |-> mustBeString(field)]
    ELSE [ok |-> TRUE, value |-> trim(value.v)]

\* Variant of asOptionalString that passes the string on as it came.
asOptionalStringRaw(value) ==
  IF value.t = "string" /\ Len(trim(value.v)) > 0 THEN value.v ELSE Undefined

asOptionalString(value) ==
  IF value.t = "string" /\ Len(trim(value.v)) > 0 THEN trim(value.v) ELSE Undefined

\* typeof raw !== "object" || raw === null: an array is an object.
validateDraftGenerationInput(raw) ==
  IF raw.kind \notin {"object", "array"}
    THEN [ok |-> FALSE, error |-> PayloadError]
    ELSE LET theme == ensureString(prop(raw, "theme"), "theme")
             brandVoice == ensureString(prop(raw, "brandVoice"), "brandVoice")
         IN  IF ~theme.ok THEN theme
             ELSE IF ~brandVoice.ok THEN brandVoice
             ELSE [ok |-> TRUE,
                   value |-> [theme |-> theme.value, brandVoice |-> brandVoice.value,
                              product |-> asOptionalString(prop(raw, "product")),
                              imagePrompt |-> asOptionalString(prop(raw, "imagePrompt")),
                              targetPersona |-> asOptionalString(prop(raw, "targetPersona"))]]

\* c.req.json() throws on text that does not parse.
readJson(body) ==
  IF body.kind = "malformed"
    THEN [ok |-> FALSE, error |-> [error |-> [message |-> InvalidJsonError]]]
    ELSE LET parsed == validateDraftGenerationInput(body)
         IN  IF ~parsed.ok
               THEN [ok |-> FALSE, error |-> [error |-> [message |-> parsed.error]]]
               ELSE [ok |-> TRUE, value |-> parsed.value]

\* c.json(body, status)
respond(body, status) == [status |-> status, body |-> body]

\* What the injected workflow.run may resolve with.
RunSummaries ==
  {[id |-> id, status |-> "draft", caption |-> <<"C">>, hashtags |-> << <<"a">> >>,
    altText |-> <<"A">>, createdAt |-> toISOString(0)] : id \in Ids}

\* What it may reject with: an Error with a message, or a value that is
\* not an Error.
RunFailures ==
  {[isError |-> TRUE, message |-> m] :
     m \in {ThemeError, BrandVoiceError, HashtagsError, GenerationError,
            MissingIdError, KvPutError, QueueSendError}}
  \cup {[isError |-> FALSE, message |-> <<"boom">>]}

NoResponse == [status |-> 0]
NoFailure == [isError |-> FALSE, message |-> <<>>]

HttpInit ==
  /\ pc = [r \in Runs |-> "idle"]
  /\ input = [r \in Runs |-> NoInput]
  /\ draft = [r \in Runs |-> NoDraft]
  /\ summary = [r \in Runs |-> NoSummary]
  /\ sending = [r \in Runs |-> NoJob]
  /\ result = [r \in Runs |-> Pending]
  /\ calls = [r \in Runs |-> <<>>]
  /\ kv = {}
  /\ queue = <<>>
  /\ queueBound = FALSE
  /\ now = 0
  /\ entity = NoEntity
  /\ usecase = NoUseCase
  /\ http = NoRequest
  /\ ui = NoUi

httpFrame == <<workflowVars, now, entity, usecase, ui>>

\* A POST /api/v1/generate request arrives: the handler up to its response
\* for a bad body, or up to await workflow.run.
Post ==
  /\ http.phase = "none"
  /\ \E body \in RequestBodies :
       LET read == readJson(body)
       IN  http' =
             IF ~read.ok
               THEN [phase |-> "responded", request |-> body, constructed |-> 0,
                     runs |-> <<>>, returned |-> NoSummary, thrown |-> NoFailure,
                     response |-> respond(read.error, 400)]
               ELSE [phase |-> "running", request |-> body, constructed |-> 1,
                     runs |-> <<read.value>>, returned |-> NoSummary, thrown |-> NoFailure,
                     response |-> NoResponse]
  /\ UNCHANGED httpFrame

\* workflow.run resolves: 201 with the id and the draft.
RunResolve ==
  /\ http.phase = "running"
  /\ \E value \in RunSummaries :
       http' = [http EXCEPT !.phase = "responded", !.returned = value,
                            !.response = respond([id |-> value.id, draft |-> value], 201)]
  /\ UNCHANGED httpFrame

\* Variant of RunReject that answers 500 unless the failure is one of the
\* input.
RunRejectServerError ==
  /\ http.phase = "running"
  /\ \E thrown \in RunFailures :
       http' = [http EXCEPT
                  !.phase = "responded",
                  !.thrown = thrown,
                  !.response = respond(
                     [error |-> [message |-> IF thrown.isError THEN thrown.message
                                             ELSE UnknownError]],
                     IF thrown.isError /\ names(thrown.message, "non-empty")
                       THEN 400 ELSE 500)]
  /\ UNCHANGED httpFrame

\* workflow.run rejects: 400 with the message of the error.
RunReject ==
  /\ http.phase = "running"
  /\ \E thrown \in RunFailures :
       http' = [http EXCEPT
                  !.phase = "responded",
                  !.thrown = thrown,
                  !.response = respond(
                     [error |-> [message |-> IF thrown.isError THEN thrown.message
                                             ELSE UnknownError]], 400)]
  /\ UNCHANGED httpFrame

HttpNext ==
  \/ Post
  \/ RunResolve
  \/ RunReject

HttpSpec == HttpInit /\ [][HttpNext]_vars

\* ---------------------------------------------------------------- production wiring
\* createApp(createDraftGenerationWorkflow) serving one POST request: the
\* HTTP adapter hands the validated body to a workflow wired to
\* SimpleContentGenerator, CreateDraftUseCase over KvDraftRepository with
\* UuidProvider and SystemClock, and QueueImageScheduler.  The request is
\* served by run 1 of the workflow variables; http holds the adapter's side.

\* value.replaceAll(/\s+/g, "")
RECURSIVE removeWhitespace(_)
removeWhitespace(s) ==
  IF s = <<>> THEN <<>>
  ELSE IF Head(s) = WS THEN removeWhitespace(Tail(s))
       ELSE <<Head(s)>> \o removeWhitespace(Tail(s))

\* String.prototype.toLowerCase, on the letters the requests are made of
toLowerCase(s) ==
  [i \in 1..Len(s) |-> CASE s[i] = "S" -> "s"
                         [] s[i] = "X" -> "x"
                         [] OTHER -> s[i]]

\* Set.prototype.add on a set kept in insertion order
setAdd(tags, t) ==
  IF \E i \in 1..Len(tags) : tags[i] = t THEN tags ELSE Append(tags, t)

\* The fixed Japanese text of the templates, one element per piece: the
\* particle after the theme, "in a ... tone." after the brand voice, and
\* "an image expressing" after the theme of the alt text.  None of it is
\* whitespace.
CaptionLink == <<"[wo]">>
CaptionTail == <<"[to-n de shoukai.]">>
AltTextTail == <<"[wo hyougen suru gazou]">>

\* SimpleContentGenerator.buildCaption
buildCaption(in) ==
  LET persona == IF truthy(in.targetPersona) THEN <<"#">> \o in.targetPersona ELSE <<>>
      product == IF truthy(in.product) THEN <<" ">> \o in.product ELSE <<>>
  IN  trim(in.theme \o product \o CaptionLink \o in.brandVoice \o CaptionTail \o persona)

\* Variant of buildHashtags that adds a tag for the brand voice as well.
buildHashtagsWithVoice(in) ==
  LET themed == setAdd(<<>>, toLowerCase(removeWhitespace(in.theme)))
      withProduct == IF truthy(in.product)
                       THEN setAdd(themed, toLowerCase(removeWhitespace(in.product)))
                       ELSE themed
      withVoice == setAdd(withProduct, <<"#">> \o toLowerCase(removeWhitespace(in.brandVoice)))
  IN  setAdd(withVoice, <<"i", "n", "s", "t", "a", "g", "r", "a", "m">>)

\* SimpleContentGenerator.buildHashtags
buildHashtags(in) ==
  LET themed == setAdd(<<>>, toLowerCase(removeWhitespace(in.theme)))
      withProduct == IF truthy(in.product)
                       THEN setAdd(themed, toLowerCase(removeWhitespace(in.product)))
                       ELSE themed
  IN  setAdd(withProduct, <<"i", "n", "s", "t", "a", "g", "r", "a", "m">>)

\* SimpleContentGenerator.buildAltText
buildAltText(in) == in.theme \o AltTextTail

\* SimpleContentGenerator.generate
generate(in) ==
  [caption |-> buildCaption(in), hashtags |-> buildHashtags(in),
   altText |-> buildAltText(in)]

ProdInit ==
  /\ pc = [r \in Runs |-> "idle"]
  /\ input = [r \in Runs |-> NoInput]
  /\ draft = [r \in Runs |-> NoDraft]
  /\ summary = [r \in Runs |-> NoSummary]
  /\ sending = [r \in Runs |-> NoJob]
  /\ result = [r \in Runs |-> Pending]
  /\ calls = [r \in Runs |-> <<>>]
  /\ kv = {}
  /\ queue = <<>>
  /\ queueBound \in BOOLEAN
  /\ now = 0
  /\ entity = NoEntity
  /\ usecase = NoUseCase
  /\ http = NoRequest
  /\ ui = NoUi

\* A POST /api/v1/generate request arrives: 400 for a bad body; otherwise
\* the factory builds the workflow and run starts, up to its first await.
ProdPost ==
  /\ http.phase = "none"
  /\ \E body \in RequestBodies :
       LET read == readJson(body)
       IN  IF ~read.ok
             THEN /\ http' = [phase |-> "responded", request |-> body, constructed |-> 0,
                              runs |-> <<>>, returned |-> NoSummary, thrown |-> NoFailure,
                              response |-> respond(read.error, 400)]
                  /\ UNCHANGED <<pc, input, calls>>
             ELSE LET next == startRun(read.value)
                  IN  /\ http' = [phase |-> "running", request |-> body, constructed |-> 1,
                                  runs |-> <<read.value>>, returned |-> NoSummary,
                                  thrown |-> NoFailure, response |-> NoResponse]
                      /\ input' = [input EXCEPT ![1] = read.value]
                      /\ pc' = [pc EXCEPT ![1] = next.pc]
                      /\ calls' = [calls EXCEPT ![1] = @ \o next.calls]
  /\ UNCHANGED <<draft, summary, sending, result, kv, queue, queueBound, now, entity, usecase, ui>>

\* SimpleContentGenerator.generate resolves; run goes on to execute with an
\* id of UuidProvider, up to kv.put.
ProdGenerate ==
  /\ pc[1] = "generate"
  /\ \E id \in Ids :
       LET generated == generate(startRun(input[1]).generating)
           next == resumeAfterGenerate(input[1], generated, id, now)
       IN  /\ pc' = [pc EXCEPT ![1] = next.pc]
           /\ draft' = [draft EXCEPT ![1] = next.draft]
           /\ result' = [result EXCEPT ![1] = next.result]
           /\ calls' = [calls EXCEPT ![1] =
                          @ \o <<Call("generate", "ok", NoVal)>> \o next.calls]
  /\ UNCHANGED <<input, summary, sending, kv, queue, queueBound, now, entity, usecase, http, ui>>

\* workflow.run has settled: 201 with the summary, or 400 with the message
\* of what it threw.
ProdRespond ==
  /\ http.phase = "running"
  /\ pc[1] \in {"returned", "failed"}
  /\ http' = IF result[1].kind = "value"
               THEN [http EXCEPT
                       !.phase = "responded", !.returned = result[1].value,
                       !.response = respond([id |-> result[1].value.id,
                                             draft |-> result[1].value], 201)]
               ELSE [http EXCEPT
                       !.phase = "responded",
                       !.thrown = [isError |-> TRUE, message |-> result[1].error],
                       !.response = respond([error |-> [message |-> result[1].error]], 400)]
  /\ UNCHANGED <<workflowVars, now, entity, usecase, ui>>

ProdNext ==
  \/ ProdPost
  \/ ProdGenerate
  \/ KvPutResolve(1)
  \/ KvPutReject(1)
  \/ ScheduleResolve(1)
  \/ QueueSendReject(1)
  \/ ProdRespond

ProdSpec == ProdInit /\ [][ProdNext]_vars

\* ---------------------------------------------------------------- React app
\* DraftGenerationFeature: the hook useDraftGeneration wired to
\* GenerationForm.  ui holds the state of the hook (formValues,
\* isSubmitting, error, draft) and, apart from it, what the last render saw
\* of that state (rendered): the callbacks of the hook and the props of the
\* form are closures over the values of the render that made them.  React
\* renders before it returns from a DOM event whose handler set state; after
\* state set elsewhere (a direct call of a callback, the continuation of an
\* await) it renders in a later task.  fetching and parsing count the
\* requests awaiting fetch and response.json(); call describes what the
\* step just taken did about submitDraft: whether the form or a direct
\* caller called it, with what the closure held, and the payload of the
\* request it started.
JsNull == <<"null">>
\* draft: null, as a value to compare a DraftSummary with
NullDraft == [id |-> JsNull]

initialFormValues ==
  [theme |-> <<>>, brandVoice |-> <<>>, product |-> <<>>, imagePrompt |-> <<>>,
   targetPersona |-> <<>>]

\* What the user may type into each field.
FieldTexts ==
  [theme |-> {<<>>, <<" ">>, <<" ", "s", " ">>},
   brandVoice |-> {<<>>, <<"f", " ">>},
   product |-> {<<>>, <<" ", "x">>},
   imagePrompt |-> {<<>>, <<" ">>},
   targetPersona |-> {<<>>, <<"y", " ">>}]

\* Variant of optional that keeps a blank text.
optionalKeepBlank(value) == IF Len(value) > 0 THEN trim(value) ELSE Undefined

\* toRequestPayload: const optional = (value) => trimmed.length > 0 ? trimmed : undefined
optional(value) == IF Len(trim(value)) > 0 THEN trim(value) ELSE Undefined

toRequestPayload(values) ==
  [theme |-> trim(values.theme), brandVoice |-> trim(values.brandVoice),
   product |-> optional(values.product), imagePrompt |-> optional(values.imagePrompt),
   targetPersona |-> optional(values.targetPersona)]

\* Variant of asOptional that gives the text as typed.
asOptionalUntrimmed(value) == IF Len(trim(value)) > 0 THEN value ELSE Undefined

\* GenerationForm: const asOptional = (value) => trimmed.length > 0 ? trimmed : undefined
asOptional(value) == IF Len(trim(value)) > 0 THEN trim(value) ELSE Undefined

\* GenerationForm.handleSubmit: the payload it builds
formPayload(values) ==
  [theme |-> trim(values.theme), brandVoice |-> trim(values.brandVoice),
   product |-> asOptional(values.product), imagePrompt |-> asOptional(values.imagePrompt),
   targetPersona |-> asOptional(values.targetPersona)]

\* Variant of canSubmit that tests the lengths without trimming.
canSubmitUntrimmed(values) == Len(values.theme) > 0 /\ Len(values.brandVoice) > 0

\* formValues.theme.trim().length > 0 && formValues.brandVoice.trim().length > 0
canSubmit(values) == Len(trim(values.theme)) > 0 /\ Len(trim(values.brandVoice)) > 0

\* The draft of a 201 answer.
ResponseDraft ==
  [id |-> <<"d", "1">>, status |-> "draft", caption |-> <<"C">>,
   hashtags |-> << <<"a">> >>, altText |-> <<"A">>, createdAt |-> toISOString(0)]

\* `Failed to generate draft: ${response.statusText}` for the 400 of the worker
NotOkError == <<"Failed", "to", "generate", "draft:", "Bad", "Request">>
\* What fetch may reject with: an Error, or a value that is no Error.
FetchFailures ==
  {[isError |-> TRUE, message |-> <<"Failed", "to", "fetch">>],
   [isError |-> FALSE, message |-> <<"boom">>]}
\* What response.json() rejects with on a body that is no JSON.
JsonError == <<"Unexpected", "token">>

NoCall == [via |-> "none"]

\* What a direct caller passes to submitDraft: nothing, or a request.
DirectInputs ==
  {NoInput,
   [theme |-> <<"a">>, brandVoice |-> <<"b">>, product |-> Undefined,
    imagePrompt |-> Undefined, targetPersona |-> Undefined]}

\* The state of the hook as a render sees it.
snapshot(u) ==
  [formValues |-> u.formValues, isSubmitting |-> u.isSubmitting, error |-> u.error,
   draft |-> u.draft]

\* React renders: callbacks and props are made anew from the state.
render(u) == [u EXCEPT !.rendered = snapshot(u)]

\* Variant of submitDraft without the guard on isSubmitting.
submitDraftUnguarded(u, via, in) ==
  LET payload == IF in = NoInput THEN toRequestPayload(u.rendered.formValues) ELSE in
  IN  [u EXCEPT !.isSubmitting = TRUE, !.error = JsNull, !.draft = NullDraft,
                !.fetching = @ + 1,
                !.call = [via |-> via, called |-> TRUE, started |-> TRUE,
                          values |-> u.rendered.formValues,
                          canSubmit |-> canSubmit(u.rendered.formValues),
                          isSubmitting |-> u.rendered.isSubmitting,
                          payload |-> payload]]

\* submitDraft(input) up to await fetch, called through the callback of the
\* last render.
submitDraft(u, via, in) ==
  IF u.rendered.isSubmitting
    THEN [u EXCEPT !.call = [via |-> via, called |-> TRUE, started |-> FALSE,
                             values |-> u.rendered.formValues,
                             canSubmit |-> canSubmit(u.rendered.formValues),
                             isSubmitting |-> u.rendered.isSubmitting,
                             payload |-> NoInput]]
    ELSE LET payload == IF in = NoInput THEN toRequestPayload(u.rendered.formValues)
                        ELSE in
         IN  [u EXCEPT !.isSubmitting = TRUE, !.error = JsNull, !.draft = NullDraft,
                       !.fetching = @ + 1,
                       !.call = [via |-> via, called |-> TRUE, started |-> TRUE,
                                 values |-> u.rendered.formValues,
                                 canSubmit |-> canSubmit(u.rendered.formValues),
                                 isSubmitting |-> u.rendered.isSubmitting,
                                 payload |-> payload]]

\* Variant of handleSubmit without its guard.
handleSubmitUnguarded(u) == submitDraft(u, "form", formPayload(u.rendered.formValues))

\* GenerationForm.handleSubmit with the props of the last render.
handleSubmit(u) ==
  IF ~canSubmit(u.rendered.formValues) \/ u.rendered.isSubmitting
    THEN [u EXCEPT !.call = [via |-> "form", called |-> FALSE, started |-> FALSE,
                             values |-> u.rendered.formValues,
                             canSubmit |-> canSubmit(u.rendered.formValues),
                             isSubmitting |-> u.rendered.isSubmitting,
                             payload |-> NoInput]]
    ELSE submitDraft(u, "form", formPayload(u.rendered.formValues))

\* Variant of settled in which isSubmitting is set back after setDraft, at
\* the end of the try block, and not in a finally block.
settledWithoutFinally(u, err, d) ==
  [u EXCEPT !.call = NoCall,
            !.error = IF err = JsNull THEN @ ELSE err,
            !.draft = IF d = NullDraft THEN @ ELSE d,
            !.isSubmitting = IF err = JsNull THEN FALSE ELSE @]

\* try/catch/finally of submitDraft once the request is over.
settled(u, err, d) ==
  [u EXCEPT !.call = NoCall,
            !.error = IF err = JsNull THEN @ ELSE err,
            !.draft = IF d = NullDraft THEN @ ELSE d,
            !.isSubmitting = FALSE]

UiInit ==
  /\ pc = [r \in Runs |-> "idle"]
  /\ input = [r \in Runs |-> NoInput]
  /\ draft = [r \in Runs |-> NoDraft]
  /\ summary = [r \in Runs |-> NoSummary]
  /\ sending = [r \in Runs |-> NoJob]
  /\ result = [r \in Runs |-> Pending]
  /\ calls = [r \in Runs |-> <<>>]
  /\ kv = {}
  /\ queue = <<>>
  /\ queueBound = FALSE
  /\ now = 0
  /\ entity = NoEntity
  /\ usecase = NoUseCase
  /\ http = NoRequest
  /\ ui = render([formValues |-> initialFormValues, isSubmitting |-> FALSE,
                  error |-> JsNull, draft |-> NullDraft, rendered |-> JsNull,
                  fetching |-> 0, parsing |-> 0, call |-> NoCall])

uiFrame == <<workflowVars, now, entity, usecase, http>>

\* The user types into a field: handleFieldChange, then React renders.
Change ==
  /\ \E field \in DOMAIN FieldTexts :
       \E value \in FieldTexts[field] :
         ui' = render([ui EXCEPT !.formValues[field] = value, !.call = NoCall])
  /\ UNCHANGED uiFrame

\* The form is submitted: handleSubmit, then React renders.
FormSubmit ==
  /\ ui.fetching + ui.parsing < MaxFetches
  /\ ui' = render(handleSubmit(ui))
  /\ UNCHANGED uiFrame

\* submitDraft() or submitDraft(input) is called outside a DOM event.
DirectSubmit ==
  /\ ui.fetching + ui.parsing < MaxFetches
  /\ \E in \in DirectInputs : ui' = submitDraft(ui, "direct", in)
  /\ UNCHANGED uiFrame

\* reset() is called outside a DOM event.
Reset ==
  /\ ui' = [ui EXCEPT !.formValues = initialFormValues, !.error = JsNull,
                       !.draft = NullDraft, !.call = NoCall]
  /\ UNCHANGED uiFrame

\* React renders the state set since the last render.
Render ==
  /\ ui.rendered # snapshot(ui)
  /\ ui' = render([ui EXCEPT !.call = NoCall])
  /\ UNCHANGED uiFrame

\* fetch resolves with an ok response: submitDraft goes on to response.json().
FetchResolveOk ==
  /\ ui.fetching > 0
  /\ ui' = [ui EXCEPT !.fetching = @ - 1, !.parsing = @ + 1, !.call = NoCall]
  /\ UNCHANGED uiFrame

\* fetch resolves with a response that is not ok: the throw, catch, finally.
FetchResolveNotOk ==
  /\ ui.fetching > 0
  /\ ui' = settled([ui EXCEPT !.fetching = @ - 1], NotOkError, NullDraft)
  /\ UNCHANGED uiFrame

\* fetch rejects: catch, finally.
FetchReject ==
  /\ ui.fetching > 0
  /\ \E thrown \in FetchFailures :
       ui' = settled([ui EXCEPT !.fetching = @ - 1],
                     IF thrown.isError THEN thrown.message ELSE UnknownError, NullDraft)
  /\ UNCHANGED uiFrame

\* response.json() resolves: setDraft(data.draft), finally.
JsonResolve ==
  /\ ui.parsing > 0
  /\ ui' = settled([ui EXCEPT !.parsing = @ - 1], JsNull, ResponseDraft)
  /\ UNCHANGED uiFrame

\* response.json() rejects: catch, finally.
JsonReject ==
  /\ ui.parsing > 0
  /\ ui' = settled([ui EXCEPT !.parsing = @ - 1], JsonError, NullDraft)
  /\ UNCHANGED uiFrame

UiNext ==
  \/ Change
  \/ FormSubmit
  \/ DirectSubmit
  \/ Reset
  \/ Render
  \/ FetchResolveOk
  \/ FetchResolveNotOk
  \/ FetchReject
  \/ JsonResolve
  \/ JsonReject

UiSpec == UiInit /\ [][UiNext]_vars

\* A request of the app settles: fetch, or response.json() after it.
RequestSettles ==
  FetchResolveNotOk \/ FetchReject \/ FetchResolveOk \/ JsonResolve \/ JsonReject

\* The app with a network of which every request settles.
UiLiveSpec == UiSpec /\ WF_vars(RequestSettles)

\* ---------------------------------------------------------------- claims
\* How often run r called a port (awaited or synchronous).
Invocations(r, port) ==
  Cardinality({i \in 1..Len(calls[r]) :
                 calls[r][i].port = port /\ calls[r][i].phase \in {"invoke", "sync"}})

\* Awaited port calls of run r not yet settled after its first k events.
InFlight(r, k) ==
  Cardinality({i \in 1..k : calls[r][i].phase = "invoke"})
  - Cardinality({i \in 1..k : calls[r][i].phase \in {"ok", "fail"}})

Failures(r) == {i \in 1..Len(calls[r]) : calls[r][i].phase = "fail"}

\* CreateDraftUseCase.execute was called in run r.
Executed(r) == Count(r, "generate", "ok") = 1

ValidationErrors == {ThemeError, BrandVoiceError, HashtagsError}
ValidationFailed(r) == result[r].kind = "error" /\ result[r].error \in ValidationErrors
GenerationFailed(r) == Count(r, "generate", "fail") = 1
PersistenceFailed(r) == Count(r, "save", "fail") = 1
SchedulingFailed(r) == Count(r, "schedule", "fail") = 1

\* Identifiers whose save has completed in run r.
SavedBy(r) == {calls[r][j].val : j \in Events(r, "save", "ok")}

\* Run r takes this step.
Steps(r) == pc'[r] # pc[r] \/ calls'[r] # calls[r]

C3_ExactlyOneSave ==
  \A r \in Runs :
    /\ (~Executed(r) \/ ValidationFailed(r)) => Count(r, "save", "invoke") = 0
    /\ (Executed(r) /\ ~ValidationFailed(r)) =>
         /\ Count(r, "save", "invoke") = 1
         /\ Count(r, "next", "sync") = 1
         /\ \A i \in Events(r, "save", "invoke") :
              /\ truthy(calls[r][i].val)
              /\ calls[r][i].val = draft[r].id
              /\ \A j \in Events(r, "next", "sync") : calls[r][j].val = calls[r][i].val

C3_Witness ==
  \E r1, r2 \in Runs :
    /\ Executed(r1) /\ Count(r1, "save", "invoke") = 1
    /\ Executed(r2) /\ ValidationFailed(r2)

\* C4: when generate fails the run fails and creates no draft: it calls
\* neither IdProvider.next nor save nor schedule, and its steps leave the
\* store and the queue unchanged.
C4_GenerationFailureAborts ==
  /\ [](\A r \in Runs : GenerationFailed(r) =>
          /\ pc[r] = "failed"
          /\ result[r].kind = "error"
          /\ draft[r] = NoDraft
          /\ Invocations(r, "next") = 0
          /\ Invocations(r, "save") = 0
          /\ Invocations(r, "schedule") = 0)
  /\ [][\A r \in Runs : (Steps(r) /\ GenerationFailed(r)') =>
          (kv' = kv /\ queue' = queue)]_vars

C4_Witness ==
  \E r1, r2 \in Runs :
    /\ GenerationFailed(r1)
    /\ pc[r2] = "returned"
    /\ kv # {}

\* C5: when execute fails in a run (validation or save failure) the run
\* fails, schedule is never invoked, and no image job is queued for it.
C5_ExecuteFailureSkipsScheduling ==
  /\ \A r \in Runs : (ValidationFailed(r) \/ PersistenceFailed(r)) =>
       /\ pc[r] = "failed"
       /\ result[r].kind = "error"
       /\ Invocations(r, "schedule") = 0
       /\ sending[r] = NoJob
  /\ Len(queue) =
       IF queueBound THEN Cardinality({r \in Runs : Count(r, "schedule", "ok") = 1}) ELSE 0
  /\ \A m \in 1..Len(queue) :
       \E r \in Runs :
         /\ ~ValidationFailed(r) /\ ~PersistenceFailed(r)
         /\ Count(r, "schedule", "ok") = 1
         /\ queue[m] = message(sending[r])

C5_Witness ==
  \E r1, r2 \in Runs :
    /\ PersistenceFailed(r1)
    /\ result[r2].kind = "error" /\ result[r2].error = HashtagsError
    /\ queueBound

\* C6: when schedule fails the run fails although its draft has been saved;
\* the record stays in the store: no step ever removes a key.
C6_SchedulingFailureKeepsDraft ==
  /\ [](\A r \in Runs : SchedulingFailed(r) =>
          /\ pc[r] = "failed"
          /\ result[r].kind = "error"
          /\ Count(r, "save", "ok") = 1
          /\ \E e \in kv : e.key = keyOf(draft[r].id))
  /\ [][/\ \A e \in kv : \E e2 \in kv' : e2.key = e.key
        /\ \A r \in Runs : (Steps(r) /\ SchedulingFailed(r)') => kv' = kv]_vars

C6_Witness ==
  \E r \in Runs :
    /\ SchedulingFailed(r)
    /\ \E e \in kv : e.key = keyOf(draft[r].id) /\ e.value = stringify(toJSON(draft[r]))

\* A DraftSummary with every field present.
Complete(s) ==
  /\ DOMAIN s = {"id", "status", "caption", "hashtags", "altText", "createdAt"}
  /\ truthy(s.id)
  /\ s.status = "draft"
  /\ s.caption # Undefined
  /\ s.altText # Undefined
  /\ s.hashtags # <<Undefined>>

\* C7: the caller receives a DraftSummary only after generate, save and
\* schedule have all completed successfully in that run, the schedule
\* completion last; a run in which anything failed ends with an error, and
\* no run gives both or a partial summary.
C7_SummaryOrError ==
  \A r \in Runs :
    /\ result[r].kind \in {"pending", "value", "error"}
    /\ (result[r].kind = "value") <=> (pc[r] = "returned")
    /\ (result[r].kind = "error") <=> (pc[r] = "failed")
    /\ result[r].kind = "value" =>
         /\ Count(r, "generate", "ok") = 1
         /\ Count(r, "save", "ok") = 1
         /\ Count(r, "schedule", "ok") = 1
         /\ calls[r][Len(calls[r])] = Call("schedule", "ok", imageJobIdOf(result[r].value.id))
         /\ Failures(r) = {}
         /\ Complete(result[r].value)
    /\ Failures(r) # {} => result[r].kind = "error"

C7_Witness ==
  \E r1, r2 \in Runs :
    /\ result[r1].kind = "value"
    /\ result[r2].kind = "error"

\* C8: the error the caller of run receives is the very error the failing
\* step raised: the rejection of generate, save or schedule, or the
\* validation error of PostDraft.create for the input.
C8_ErrorsPropagateUnchanged ==
  \A r \in Runs : result[r].kind = "error" =>
    IF Failures(r) # {}
      THEN \A i \in Failures(r) :
             /\ result[r].error = calls[r][i].val
             /\ calls[r][i].val \in {GenerationError, KvPutError, QueueSendError}
      ELSE result[r].error =
             IF trim(input[r].theme) = <<>> THEN ThemeError
             ELSE IF trim(input[r].brandVoice) = <<>> THEN BrandVoiceError
             ELSE HashtagsError

C8_Witness ==
  \E r1, r2 \in Runs :
    /\ result[r1].kind = "error" /\ result[r1].error = KvPutError
    /\ result[r2].kind = "error" /\ result[r2].error = BrandVoiceError

\* C9: a run calls each of generate, IdProvider.next, save and schedule at
\* most once, and makes no call after one of them failed.
C9_NoRetry ==
  \A r \in Runs :
    /\ \A port \in {"generate", "next", "save", "schedule"} : Invocations(r, port) <= 1
    /\ \A i \in Failures(r) : i = Len(calls[r])

C9_Witness ==
  \E r1, r2 \in Runs :
    /\ PersistenceFailed(r1) /\ Invocations(r1, "save") = 1
    /\ SchedulingFailed(r2) /\ Invocations(r2, "schedule") = 1

\* C10: when theme is blank after trimming, whatever brandVoice is, creation
\* fails with an error whose message names theme; save and schedule are not
\* called, and neither IdProvider.next nor Clock.now has been called.
C10_BlankThemeRejected ==
  \A r \in Runs : (pc[r] # "idle" /\ trim(input[r].theme) = <<>>) =>
    /\ Invocations(r, "save") = 0
    /\ Invocations(r, "schedule") = 0
    /\ Invocations(r, "next") = 0
    /\ Invocations(r, "now") = 0
    /\ Executed(r) =>
         /\ pc[r] = "failed"
         /\ result[r].kind = "error"
         /\ names(result[r].error, "theme")

C10_Witness ==
  \E r1, r2 \in Runs :
    /\ Executed(r1) /\ trim(input[r1].theme) = <<>> /\ trim(input[r1].brandVoice) = <<>>
    /\ Executed(r2) /\ trim(input[r2].theme) = <<>> /\ trim(input[r2].brandVoice) # <<>>

\* C11: when a run fails with a validation error of PostDraft.create, the
\* only port it has called is ContentGenerator.generate, once and to
\* completion: IdProvider.next, Clock.now, save and schedule have not been
\* called, it holds no draft, and nothing of it is stored or queued.
C11_ValidationFailsAfterGenerateOnly ==
  \A r \in Runs : ValidationFailed(r) =>
    /\ calls[r] = <<Call("generate", "invoke", NoVal), Call("generate", "ok", NoVal)>>
    /\ Invocations(r, "next") = 0
    /\ Invocations(r, "now") = 0
    /\ Invocations(r, "save") = 0
    /\ Invocations(r, "schedule") = 0
    /\ draft[r] = NoDraft /\ summary[r] = NoSummary /\ sending[r] = NoJob
    /\ (\A other \in Runs \ {r} : pc[other] = "idle") => (kv = {} /\ queue = <<>>)

C11_Witness ==
  \E r1, r2 \in Runs :
    /\ ValidationFailed(r1) /\ result[r1].error = HashtagsError
    /\ ValidationFailed(r2) /\ result[r2].error = BrandVoiceError

\* C11 as stated: a run that fails with a validation error has called no
\* port at all, ContentGenerator.generate included.
C11_NoPortBeforeValidation ==
  \A r \in Runs : ValidationFailed(r) =>
    \A port \in {"generate", "next", "save", "schedule"} : Invocations(r, port) = 0

\* C12: in a run that returned, IdProvider.next was called once, and the
\* identifier it returned is the id of the draft given to save, the id of
\* the returned DraftSummary and the draftId given to schedule.
C12_OneIdentifierThroughout ==
  \A r \in Runs : pc[r] = "returned" =>
    /\ Count(r, "next", "sync") = 1
    /\ \A n \in Events(r, "next", "sync") :
         LET id == calls[r][n].val
         IN  /\ truthy(id)
             /\ draft[r].id = id
             /\ \A i \in Events(r, "save", "invoke") : calls[r][i].val = id
             /\ \A i \in Events(r, "save", "ok") : calls[r][i].val = id
             /\ summary[r].id = id
             /\ result[r].value.id = id
             /\ sending[r].draftId = id
             /\ \A i \in Events(r, "schedule", "invoke") : calls[r][i].val.draftId = id
             /\ \E e \in kv : e.key = keyOf(id) /\ e.value[1] = <<"id", id>>
             /\ queueBound => \E m \in 1..Len(queue) : queue[m].draftId = id

C12_Witness ==
  \E r1, r2 \in Runs :
    /\ pc[r1] = "returned" /\ pc[r2] = "returned"
    /\ result[r1].value.id # result[r2].value.id
    /\ queueBound

\* C13: a run that returned gives its caller the DraftSummary execute
\* produced, field for field; the image job id schedule returned is neither
\* a field of it nor the value of one.
C13_ReturnsTheSummaryOfExecute ==
  \A r \in Runs : result[r].kind = "value" =>
    /\ result[r].value = summary[r]
    /\ DOMAIN result[r].value = {"id", "status", "caption", "hashtags", "altText", "createdAt"}
    /\ \A i \in Events(r, "schedule", "ok") :
         /\ calls[r][i].val = imageJobIdOf(summary[r].id)
         /\ \A f \in {"id", "caption", "altText", "createdAt"} :
              result[r].value[f] # calls[r][i].val

C13_Witness ==
  \E r \in Runs :
    /\ result[r].kind = "value"
    /\ Count(r, "schedule", "ok") = 1
    /\ result[r].value.hashtags = << <<"a">>, <<"b">> >>

\* The imagePrompt of an input is absent or blank.
BlankPrompt(in) == in.imagePrompt = Undefined \/ trim(in.imagePrompt) = <<>>

\* C14 as stated: whenever the imagePrompt of the input is absent or blank,
\* the prompt given to schedule is the trimmed theme.
C14_BlankPromptFallsBackToTrimmedTheme ==
  \A r \in Runs : \A i \in Events(r, "schedule", "invoke") :
    BlankPrompt(input[r]) => calls[r][i].val.prompt = trim(input[r].theme)

\* C15: whenever the imagePrompt of the input has a character that is not
\* whitespace, the prompt given to schedule, and queued, is the trimmed
\* imagePrompt; the theme takes no part in it.
C15_PromptIsTrimmedImagePrompt ==
  \A r \in Runs : \A i \in Events(r, "schedule", "invoke") :
    ~BlankPrompt(input[r]) =>
      /\ calls[r][i].val.prompt = trim(input[r].imagePrompt)
      /\ calls[r][i].val.prompt # <<>>
      /\ Head(calls[r][i].val.prompt) # WS
      /\ calls[r][i].val.prompt[Len(calls[r][i].val.prompt)] # WS
      /\ input[r].theme # trim(input[r].imagePrompt) =>
           calls[r][i].val.prompt # input[r].theme
      /\ (queueBound /\ Count(r, "schedule", "ok") = 1) =>
           \E m \in 1..Len(queue) :
             /\ queue[m].draftId = calls[r][i].val.draftId
             /\ queue[m].prompt = trim(input[r].imagePrompt)

C15_Witness ==
  \E r \in Runs :
    /\ Count(r, "schedule", "ok") = 1
    /\ queueBound
    /\ ~BlankPrompt(input[r])
    /\ input[r].imagePrompt # trim(input[r].imagePrompt)

\* A string with a character and no whitespace at either end.
Trimmed(v) == v # <<>> /\ Head(v) # WS /\ v[Len(v)] # WS

\* C16: PostDraft.create throws for every input whose theme or brandVoice
\* is empty after trimming; for every input it accepts, theme and
\* brandVoice of the draft, of every draft assignId makes of it and of its
\* record are the trimmed input values.
C16_ThemeAndVoiceTrimmedOrRejected ==
  entity.phase # "none" =>
    LET in == entity.in
    IN  /\ (trim(in.theme) = <<>> \/ trim(in.brandVoice) = <<>>) =>
             /\ entity.phase = "failed"
             /\ entity.error \in {ThemeError, BrandVoiceError}
        /\ entity.phase = "created" =>
             /\ \A d \in {entity.created, entity.draft} :
                  /\ d.theme = trim(in.theme) /\ Trimmed(d.theme)
                  /\ d.brandVoice = trim(in.brandVoice) /\ Trimmed(d.brandVoice)
             /\ entity.json # NoDraft =>
                  /\ entity.json.theme = trim(in.theme)
                  /\ entity.json.brandVoice = trim(in.brandVoice)

C16_Witness ==
  /\ entity.phase = "created"
  /\ entity.in.theme = <<" ", "s", " ">> /\ entity.created.theme = <<"s">>
  /\ entity.in.brandVoice = <<"f", " ">> /\ entity.json # NoDraft
  /\ Len(entity.assigned) = 1

\* A string with a character that is not whitespace.
NonBlank(v) == \E k \in 1..Len(v) : v[k] # WS

\* How many of the first i tags of a list are not blank.
Kept(tags, i) == Cardinality({j \in 1..i : NonBlank(tags[j])})

\* C17: PostDraft.create throws for every input with more than 25 tags
\* that are not blank and accepts, theme and brandVoice being valid, every
\* input with 25 or fewer; the hashtags of a created draft are the tags of
\* the input that are not blank, trimmed, in their order, so a draft has at
\* most 25 hashtags and none is blank.
C17_HashtagsNormalisedAndBounded ==
  entity.phase # "none" =>
    LET tags == entity.in.hashtags
        valid == NonBlank(entity.in.theme) /\ NonBlank(entity.in.brandVoice)
    IN  IF tags = <<Undefined>>
          THEN /\ valid => entity.phase = "created"
               /\ entity.phase = "created" =>
                    entity.created.hashtags = <<Undefined>> /\ entity.draft.hashtags = <<Undefined>>
          ELSE /\ Kept(tags, Len(tags)) > 25 =>
                    /\ entity.phase = "failed"
                    /\ valid => entity.error = HashtagsError
               /\ (Kept(tags, Len(tags)) <= 25 /\ valid) => entity.phase = "created"
               /\ entity.phase = "created" =>
                    LET hashtags == entity.created.hashtags
                    IN  /\ Len(hashtags) = Kept(tags, Len(tags))
                        /\ Len(hashtags) <= 25
                        /\ \A i \in 1..Len(tags) :
                             NonBlank(tags[i]) => hashtags[Kept(tags, i)] = trim(tags[i])
                        /\ \A k \in 1..Len(hashtags) : Trimmed(hashtags[k])
                        /\ entity.draft.hashtags = hashtags

C17_Witness ==
  /\ entity.phase = "created"
  /\ Len(entity.in.hashtags) = 26
  /\ Len(entity.draft.hashtags) = 25
  /\ entity.draft.hashtags[2] = tag(3)
  /\ Len(entity.assigned) = 2

\* A step in which the caller makes an assignId call.
AssignIdStep ==
  /\ entity.phase = "created"
  /\ entity'.phase = "created"
  /\ Len(entity'.assigned) = Len(entity.assigned) + 1

\* C18: an assignId(id) call returns a draft whose id is the identifier
\* given and whose every other field is that of the receiver, and leaves
\* the receiver, and the draft create returned, as they were.
C18_AssignIdChangesOnlyTheId ==
  [][AssignIdStep =>
       LET id == entity'.assigned[Len(entity'.assigned)]
       IN  /\ entity'.draft.id = id
           /\ DOMAIN entity'.draft = DOMAIN entity.draft
           /\ \A f \in DOMAIN entity.draft \ {"id"} : entity'.draft[f] = entity.draft[f]
           /\ entity'.receiver = entity.draft
           /\ entity'.created = entity.created
           /\ entity'.created.id = Undefined]_vars

C18_Witness ==
  /\ entity.phase = "created"
  /\ Len(entity.assigned) = 1
  /\ entity.receiver = entity.created
  /\ entity.receiver.id = Undefined
  /\ entity.draft.id = entity.assigned[1]
  /\ entity.draft.caption = <<"C">>

\* C19: assignId on a draft that already has an id is accepted like any
\* other call and gives the new id: after assignId(a) and then assignId(b)
\* the draft is, on every field, the draft assignId(b) makes of the created
\* one.
C19_LastAssignedIdWins ==
  entity.phase = "created" =>
    /\ Len(entity.assigned) < MaxAssigns => \A id \in Ids : ENABLED CallAssignId(id)
    /\ Len(entity.assigned) > 0 =>
         /\ entity.draft.id = entity.assigned[Len(entity.assigned)]
         /\ DOMAIN entity.draft = DOMAIN entity.created
         /\ \A f \in DOMAIN entity.created \ {"id"} : entity.draft[f] = entity.created[f]
    /\ Len(entity.assigned) > 1 =>
         entity.receiver.id = entity.assigned[Len(entity.assigned) - 1]

C19_Witness ==
  /\ entity.phase = "created"
  /\ Len(entity.assigned) = 2
  /\ entity.assigned[1] # entity.assigned[2]
  /\ entity.receiver.id = entity.assigned[1]
  /\ entity.draft.id = entity.assigned[2]

\* The string fields a caller may supply to PostDraft.create.
SuppliedStrings(in) ==
  {f \in {"theme", "brandVoice", "product", "imagePrompt", "targetPersona",
           "caption", "altText"} : in[f] # Undefined}

\* C20: for every input PostDraft.create accepts, the record toJSON gives
\* has exactly the fields of the draft with the values the draft holds,
\* and every field the input supplied is in it in normal form: a string
\* trimmed, the hashtags trimmed with the blank ones left out.
C20_RecordHoldsNormalisedInput ==
  (entity.phase = "created" /\ entity.json # NoDraft) =>
    LET in == entity.in
        json == entity.json
    IN  /\ DOMAIN json = {PropOrder[i] : i \in 1..Len(PropOrder)}
        /\ DOMAIN json = DOMAIN entity.draft
        /\ \A f \in DOMAIN json \ {"id"} : json[f] = entity.draft[f]
        /\ json.id = Undefined \/ \E k \in 1..Len(entity.assigned) : json.id = entity.assigned[k]
        /\ \A f \in SuppliedStrings(in) : json[f] = trim(in[f])
        /\ in.hashtags # <<Undefined>> =>
             /\ Len(json.hashtags) = Kept(in.hashtags, Len(in.hashtags))
             /\ \A i \in 1..Len(in.hashtags) :
                  NonBlank(in.hashtags[i]) =>
                    json.hashtags[Kept(in.hashtags, i)] = trim(in.hashtags[i])

C20_Witness ==
  /\ entity.phase = "created"
  /\ entity.json # NoDraft
  /\ entity.json.id # Undefined
  /\ entity.in.theme = <<" ", "s", " ">> /\ entity.json.theme = <<"s">>
  /\ entity.in.product = <<" ">> /\ entity.json.product = <<>>
  /\ entity.in.caption # Undefined /\ entity.in.altText = Undefined
  /\ Len(entity.in.hashtags) = 4 /\ entity.json.hashtags = << <<"a">>, <<"b">> >>

\* C20 as stated: every field the input supplied is in the record as it
\* was supplied.
C20_RecordEqualsInput ==
  (entity.phase = "created" /\ entity.json # NoDraft) =>
    /\ \A f \in SuppliedStrings(entity.in) : entity.json[f] = entity.in[f]
    /\ entity.in.hashtags # <<Undefined>> => entity.json.hashtags = entity.in.hashtags

\* C21: the DraftSummary execute returns is the projection of the draft it
\* gave to save, the draft stored: id, status and createdAt are that
\* draft's, and caption, altText and hashtags are that draft's or, where
\* the draft has none, the empty string, the empty string and the empty
\* list.
C21_SummaryProjectsTheSavedDraft ==
  (usecase.phase = "returned" /\ usecase.op = "execute") =>
    LET d == usecase.draft
        s == usecase.summary
    IN  /\ DOMAIN s = {"id", "status", "caption", "hashtags", "altText", "createdAt"}
        /\ s.id = d.id /\ truthy(s.id)
        /\ s.status = d.status
        /\ s.createdAt = d.createdAt
        /\ s.caption = IF d.caption = Undefined THEN <<>> ELSE d.caption
        /\ s.altText = IF d.altText = Undefined THEN <<>> ELSE d.altText
        /\ s.hashtags = IF d.hashtags = <<Undefined>> THEN <<>> ELSE d.hashtags
        /\ \E e \in kv : e.key = <<"draft:">> \o d.id /\ e.value[1] = <<"id", d.id>>

C21_Witness ==
  /\ usecase.phase = "returned" /\ usecase.op = "execute" /\ usecase.calls = 2
  /\ usecase.draft.caption = Undefined /\ usecase.summary.caption = <<>>
  /\ usecase.draft.hashtags = <<Undefined>> /\ usecase.summary.hashtags = <<>>
  /\ \E e \in kv : Len(e.value) = 11 /\ e.value[7] = <<"caption", <<"C">>>>

\* C22: in every draft PostDraft.create returns, product, imagePrompt and
\* targetPersona are the input value trimmed, or the empty string where the
\* input has none; caption and altText are the input value trimmed where
\* the input has one, and absent where it has none.
C22_OptionalFieldsTrimmedOrDefaulted ==
  entity.phase = "created" =>
    /\ \A f \in {"product", "imagePrompt", "targetPersona"} :
         /\ entity.in[f] = Undefined => entity.created[f] = <<>>
         /\ entity.in[f] # Undefined =>
              /\ entity.created[f] = trim(entity.in[f])
              /\ entity.created[f] = <<>> \/ Trimmed(entity.created[f])
         /\ entity.created[f] # Undefined
    /\ \A f \in {"caption", "altText"} :
         /\ entity.in[f] # Undefined =>
              /\ entity.created[f] = trim(entity.in[f])
              /\ entity.created[f] = <<>> \/ Trimmed(entity.created[f])
         /\ entity.in[f] = Undefined => entity.created[f] = Undefined

C22_Witness ==
  /\ entity.phase = "created"
  /\ entity.in.product = <<" ", "x">> /\ entity.created.product = <<"x">>
  /\ entity.in.imagePrompt = Undefined /\ entity.created.imagePrompt = <<>>
  /\ entity.in.targetPersona = <<"y">>
  /\ entity.in.caption = <<"C", " ">> /\ entity.created.caption = <<"C">>
  /\ entity.in.altText = Undefined

\* C23: every draft reached through create, assignId calls and toJSON has
\* status "draft" and the createdAt of the instant the clock returned when
\* it was created, however far the clock has moved since; a create that
\* succeeds reads the clock once, one that throws does not read it, and no
\* other call reads it.
C23_StatusAndCreatedAtFixed ==
  /\ entity.phase = "failed" => entity.reads = <<>>
  /\ entity.phase = "created" =>
       /\ Len(entity.reads) = 1
       /\ entity.reads[1] <= now
       /\ \A d \in {entity.created, entity.receiver, entity.draft, entity.json} \ {NoDraft} :
            /\ d.status = "draft"
            /\ d.createdAt = <<ToString(entity.reads[1]), "Z">>

C23_Witness ==
  /\ entity.phase = "created"
  /\ entity.reads = <<0>>
  /\ now = 1
  /\ Len(entity.assigned) = 2
  /\ entity.json # NoDraft /\ entity.json.id = entity.assigned[2]

\* The draft is made of this input and this generated content alone.
MadeOf(d, in, generated) ==
  /\ d.theme = trim(in.theme)
  /\ d.brandVoice = trim(in.brandVoice)
  /\ \A f \in {"product", "imagePrompt", "targetPersona"} :
       d[f] = IF in[f] = Undefined THEN <<>> ELSE trim(in[f])
  /\ d.caption = trim(generated.caption)
  /\ d.altText = trim(generated.altText)
  /\ Len(d.hashtags) <= Len(generated.hashtags)
  /\ \A k \in 1..Len(d.hashtags) :
       \E i \in 1..Len(generated.hashtags) : d.hashtags[k] = trim(generated.hashtags[i])
  /\ d.status = "draft"
  /\ d.createdAt = <<"0", "Z">>

\* No other run has drawn the identifier run r has drawn.
DistinctId(r) == \A other \in Runs \ {r} : draft[other].id # draft[r].id

\* C24: however the runs interleave, a run whose identifier no other run
\* has drawn holds, stores, queues and returns what it would alone: its
\* draft is made of its input, the content generated for it and its
\* identifier, and its store entry, its job and its result are made of that
\* draft and that input; nothing of another run is in them.
C24_RunsAreIsolated ==
  \A r \in Runs : (draft[r] # NoDraft /\ DistinctId(r)) =>
    LET d == draft[r]
        job == [draftId |-> d.id,
                prompt |-> IF BlankPrompt(input[r]) THEN input[r].theme
                           ELSE trim(input[r].imagePrompt)]
        own == [id |-> d.id, status |-> "draft", caption |-> d.caption,
                hashtags |-> d.hashtags, altText |-> d.altText, createdAt |-> d.createdAt]
    IN  /\ \E generated \in GeneratedContents : MadeOf(d, input[r], generated)
        /\ \A n \in Events(r, "next", "sync") : d.id = calls[r][n].val
        /\ Count(r, "save", "ok") = 1 =>
             /\ \E e \in kv : e.key = <<"draft:">> \o d.id
             /\ \A e \in kv : e.key = <<"draft:">> \o d.id =>
                  /\ e.value = stringify(d)
                  /\ e.expirationTtl = DEFAULT_TTL_SECONDS
             /\ summary[r] = own
             /\ sending[r] = job
        /\ (Count(r, "schedule", "ok") = 1 /\ queueBound) =>
             Cardinality({m \in 1..Len(queue) : queue[m].draftId = d.id}) = 1
        /\ \A m \in 1..Len(queue) :
             queue[m].draftId = d.id =>
               queue[m] = [type |-> "generate_image", draftId |-> job.draftId,
                           prompt |-> job.prompt]
        /\ result[r].kind = "value" => result[r].value = own

C24_Witness ==
  \E r1, r2 \in Runs :
    /\ r1 # r2
    /\ result[r1].kind = "value" /\ result[r2].kind = "value"
    /\ result[r1].value.id # result[r2].value.id
    /\ input[r1] # input[r2]
    /\ Len(queue) = 2
    /\ calls[r1][Len(calls[r1])].port = "schedule"
    /\ Count(r2, "schedule", "ok") = 1

\* The draft of the last call lacks an identifier: id absent or empty.
LacksId(d) == d.id = Undefined \/ d.id = <<>>

\* The step in which a call on the use case or the repository is made.
CallStep == usecase'.calls = usecase.calls + 1

\* C25: save of a draft whose id is absent or empty fails with the error
\* "Draft must have an id before persisting", whether the repository is
\* called directly or by execute, and the call leaves the store as it was:
\* no entry is ever stored under the key of an absent or empty id.
C25_SaveWithoutIdFails ==
  /\ [](/\ (usecase.draft # NoDraft /\ LacksId(usecase.draft)) =>
             /\ usecase.phase = "failed"
             /\ usecase.error = <<"Draft", "must", "have", "an", "id", "before", "persisting">>
             /\ usecase.summary = NoSummary
         /\ \A e \in kv : e.key \notin {<<"draft:">>, <<"draft:", "undefined">>})
  /\ [][(CallStep /\ usecase'.draft # NoDraft /\ LacksId(usecase'.draft)) => kv' = kv]_vars

C25_Witness ==
  /\ usecase.calls = 2
  /\ usecase.op = "save"
  /\ usecase.phase = "failed"
  /\ usecase.draft # NoDraft /\ usecase.draft.id = Undefined
  /\ kv # {}

\* The step in which a save call returns.
SaveReturns == usecase.phase = "saving" /\ usecase'.phase = "returned"

\* The fields of a draft that have a value.
Defined(d) == {f \in DOMAIN d : ~isUndefined(f, d)}

\* C26: a save that succeeds for a draft with id i leaves exactly one
\* entry under the key "draft:" + i: its value is the serialized record of
\* the draft, every field of toJSON that has a value and nothing else, and
\* its expiration is the TTL the repository was constructed with, 604800
\* seconds by default; the entries under every other key stay as they were.
C26_SaveWritesOneEntry ==
  /\ [](DEFAULT_TTL_SECONDS = 604800 /\ (usecase.phase # "none" => usecase.ttl \in {604800, 60}))
  /\ [][SaveReturns =>
          LET d == usecase.draft
              key == <<"draft:">> \o d.id
              written == {e \in kv' : e.key = key}
          IN  /\ Cardinality(written) = 1
              /\ \A e \in written :
                   /\ e.expirationTtl = usecase.ttl
                   /\ Len(e.value) = Cardinality(Defined(d))
                   /\ \A f \in Defined(d) : \E i \in 1..Len(e.value) : e.value[i] = <<f, d[f]>>
                   /\ e.value[1] = <<"id", d.id>>
              /\ {e \in kv' : e.key # key} = {e \in kv : e.key # key}]_vars

C26_Witness ==
  /\ usecase.phase = "returned"
  /\ usecase.ttl = 60
  /\ Cardinality(kv) = 2
  /\ \E e \in kv : e.key = <<"draft:">> \o usecase.draft.id /\ Len(e.value) = 8
  /\ \E e \in kv : e.key # <<"draft:">> \o usecase.draft.id /\ Len(e.value) = 11

\* C27: with no queue bound, schedule sends nothing and never fails; and
\* every schedule call that does not fail, with or without a queue, returns
\* a job identifier, the draftId followed by "-image".
C27_ScheduleToleratesMissingQueue ==
  /\ ~queueBound =>
       /\ queue = <<>>
       /\ \A r \in Runs :
            /\ Count(r, "schedule", "fail") = 0
            /\ result[r].kind = "error" => Invocations(r, "schedule") = 0
  /\ \A r \in Runs : \A i \in Events(r, "schedule", "ok") :
       /\ calls[r][i].val = sending[r].draftId \o <<"-image">>
       /\ Len(calls[r][i].val) > 1
       /\ calls[r][i].val # Undefined

C27_Witness ==
  /\ ~queueBound
  /\ \A r \in Runs : Count(r, "schedule", "ok") = 1 /\ pc[r] = "returned"

\* The messages on the queue that carry this job.
Carrying(job) ==
  {m \in 1..Len(queue) :
     queue[m] = [type |-> "generate_image", draftId |-> job.draftId, prompt |-> job.prompt]}

\* C28: with a queue bound, every schedule call that has returned has sent
\* one message {type: "generate_image", draftId, prompt} with the draftId
\* and prompt it was called with, and the message is on the queue when it
\* returns; a call whose send failed returns no job identifier and fails
\* the run, and a call still in flight has not returned.
C28_OneMessagePerScheduleCall ==
  queueBound =>
    /\ Len(queue) = Cardinality({r \in Runs : Count(r, "schedule", "ok") = 1})
    /\ \A m \in 1..Len(queue) :
         DOMAIN queue[m] = {"type", "draftId", "prompt"} /\ queue[m].type = "generate_image"
    /\ \A r \in Runs :
         /\ Count(r, "schedule", "ok") <= 1
         /\ \A i \in Events(r, "schedule", "invoke") :
              /\ Count(r, "schedule", "ok") = 1 =>
                   Cardinality(Carrying(calls[r][i].val)) >=
                     Cardinality({o \in Runs : /\ Count(o, "schedule", "ok") = 1
                                               /\ sending[o] = calls[r][i].val})
              /\ Count(r, "schedule", "ok") = 1 => Carrying(calls[r][i].val) # {}
              /\ Count(r, "schedule", "fail") = 1 =>
                   /\ Count(r, "schedule", "ok") = 0
                   /\ result[r] = Thrown(QueueSendError)
              /\ pc[r] = "schedule" =>
                   Count(r, "schedule", "ok") = 0 /\ result[r] = Pending

C28_Witness ==
  \E r1, r2 \in Runs :
    /\ queueBound
    /\ Count(r1, "schedule", "ok") = 1 /\ Carrying(sending[r1]) # {}
    /\ Count(r2, "schedule", "fail") = 1
    /\ Len(queue) = 1

\* A JSON value that is not a string with a character other than whitespace.
NotAText(value) == value.t # "string" \/ ~NonBlank(value.v)

\* A request body the adapter must refuse.
BadRequest(body) ==
  \/ body.kind # "object"
  \/ NotAText(body.theme)
  \/ NotAText(body.brandVoice)

\* C29: a POST /api/v1/generate whose body is not a JSON object, or whose
\* theme or brandVoice is missing, not a string or blank, is answered with
\* status 400 and a body {error: {message}}, the message naming theme
\* whenever theme is invalid and brandVoice otherwise; the factory is not
\* called and workflow.run is not called.
C29_BadRequestRejected ==
  (http.phase # "none" /\ BadRequest(http.request)) =>
    /\ http.phase = "responded"
    /\ http.response.status = 400
    /\ DOMAIN http.response.body = {"error"}
    /\ DOMAIN http.response.body.error = {"message"}
    /\ http.response.body.error.message # <<>>
    /\ http.constructed = 0
    /\ http.runs = <<>>
    /\ http.request.kind = "object" =>
         IF NotAText(http.request.theme)
           THEN /\ names(http.response.body.error.message, "theme")
                /\ ~names(http.response.body.error.message, "brandVoice")
           ELSE names(http.response.body.error.message, "brandVoice")

C29_Witness ==
  /\ http.phase = "responded"
  /\ http.request.kind = "object"
  /\ http.request.theme = Str(<<" ">>)
  /\ http.request.brandVoice = Null
  /\ http.response.status = 400

\* The value the adapter passes on for an optional field.
Passed(value) == IF NotAText(value) THEN Undefined ELSE trim(value.v)

\* C30: for a POST /api/v1/generate whose theme and brandVoice are strings
\* that are not blank, the factory is called once and workflow.run once,
\* with theme and brandVoice trimmed and every optional field trimmed, or
\* undefined when it is blank or not a string; when run resolves the
\* response has status 201 and body {id, draft}, draft being the summary
\* run returned and id its id.
C30_GoodRequestDelegated ==
  (http.phase # "none" /\ ~BadRequest(http.request)) =>
    /\ http.constructed = 1
    /\ Len(http.runs) = 1
    /\ DOMAIN http.runs[1] = {"theme", "brandVoice", "product", "imagePrompt", "targetPersona"}
    /\ http.runs[1].theme = trim(http.request.theme.v)
    /\ http.runs[1].brandVoice = trim(http.request.brandVoice.v)
    /\ \A f \in {"product", "imagePrompt", "targetPersona"} :
         http.runs[1][f] = Passed(http.request[f])
    /\ http.returned # NoSummary =>
         /\ http.phase = "responded"
         /\ http.response.status = 201
         /\ DOMAIN http.response.body = {"id", "draft"}
         /\ http.response.body.draft = http.returned
         /\ http.response.body.id = http.response.body.draft.id
    /\ http.phase = "running" => http.response = NoResponse

C30_Witness ==
  /\ http.phase = "responded"
  /\ http.response.status = 201
  /\ http.request.theme = Str(<<" ", "s", " ">>) /\ http.runs[1].theme = <<"s">>
  /\ http.request.product = Str(<<" ">>) /\ http.runs[1].product = Undefined
  /\ http.request.imagePrompt = Str(<<"p", " ">>) /\ http.runs[1].imagePrompt = <<"p">>
  /\ http.request.targetPersona = Missing

\* C33: Workflow.run terminates, with a DraftSummary or an error, whenever
\* every port call it makes settles; and the core has no timeout of its
\* own: while a port call of a run is in flight, nothing about the run
\* changes (no result, no further port call) except by that call settling.
Awaiting(r) == pc[r] \in {"generate", "save", "schedule"}

SettledFirst(r) ==
  /\ Len(calls'[r]) > Len(calls[r])
  /\ SubSeq(calls'[r], 1, Len(calls[r])) = calls[r]
  /\ calls'[r][Len(calls[r]) + 1].port = pc[r]
  /\ calls'[r][Len(calls[r]) + 1].phase \in {"ok", "fail"}

Finished(r) == pc[r] \in {"returned", "failed"} /\ result[r].kind \in {"value", "error"}

C33_RunTerminatesWhenCallsSettle ==
  /\ <>[](\A r \in Runs : pc[r] = "idle" \/ Finished(r))
  /\ [][\A r \in Runs :
          (Awaiting(r) /\ <<pc[r], calls[r], result[r]>>' # <<pc[r], calls[r], result[r]>>)
            => SettledFirst(r)]_vars

\* One run has returned its summary after its three calls settled, while
\* the call of another is still in flight and that run has no result.
C33_Witness ==
  \E r, q \in Runs :
    /\ pc[r] = "returned" /\ result[r].kind = "value"
    /\ Count(r, "generate", "ok") = 1 /\ Count(r, "save", "ok") = 1
    /\ Count(r, "schedule", "ok") = 1
    /\ Awaiting(q) /\ result[q] = Pending

\* C36: when the IdProvider hands one identifier to two invocations,
\* neither is rejected for it (a run fails only when kv.put or queue.send
\* rejects); the store holds one record under that id, which each
\* completed save replaces with its own, so the record is that of the save
\* that completed last; and every image job and every summary of these
\* runs carries that one id.
SameId(r, q) == r # q /\ draft[r] # NoDraft /\ draft[r].id = draft[q].id

Under(store, id) == {e \in store : e.key = keyOf(id)}

SaveCompletes(r) == pc[r] = "save" /\ pc'[r] = "schedule"

C36_DuplicateIdsOverwrite ==
  /\ [](\A r, q \in Runs :
          SameId(r, q) =>
            /\ result[r].kind = "error" => result[r].error \in {KvPutError, QueueSendError}
            /\ Cardinality(Under(kv, draft[r].id)) <= 1
            /\ Count(r, "save", "ok") = 1 => Cardinality(Under(kv, draft[r].id)) = 1
            /\ sending[r] # NoJob => sending[r].draftId = draft[q].id
            /\ result[r].kind = "value" => result[r].value.id = draft[q].id)
  /\ [][\A r \in Runs :
          SaveCompletes(r) =>
            Under(kv', draft[r].id) =
              {[key |-> keyOf(draft[r].id), value |-> stringify(toJSON(draft[r])),
                expirationTtl |-> DEFAULT_TTL_SECONDS]}]_vars

\* Two runs that were given the same id for different drafts have both
\* returned, and the store holds one record under it.
C36_Witness ==
  \E r, q \in Runs :
    /\ SameId(r, q) /\ draft[r] # draft[q]
    /\ result[r].kind = "value" /\ result[q].kind = "value"
    /\ Cardinality(Under(kv, draft[r].id)) = 1
    /\ \E e \in kv : e.value = stringify(toJSON(draft[r]))

\* C34: whatever workflow.run rejects with (an error of validation,
\* generation, persistence or scheduling, or a value that is no Error), the
\* response is { error: { message } } with status 400, the message being
\* the error's, or "Unknown error" for a value that is no Error; it is
\* never the 201 body.
C34_RunFailureAnswered400 ==
  (http.phase = "responded" /\ http.thrown # NoFailure) =>
    /\ http.thrown \in RunFailures
    /\ http.response.status = 400
    /\ DOMAIN http.response.body = {"error"}
    /\ DOMAIN http.response.body.error = {"message"}
    /\ http.thrown.isError => http.response.body.error.message = http.thrown.message
    /\ ~http.thrown.isError => http.response.body.error.message = UnknownError
    /\ http.returned = NoSummary

\* A request that passed the validation was run, and the run failed while
\* storing the draft.
C34_Witness ==
  /\ http.phase = "responded"
  /\ Len(http.runs) = 1
  /\ http.thrown = [isError |-> TRUE, message |-> KvPutError]
  /\ http.response.status = 400

\* C35: in the production wiring every request the HTTP validation accepts
\* passes the validation of PostDraft.create: theme and brandVoice reach
\* it trimmed and non-blank, SimpleContentGenerator gives at most 3
\* hashtags, so create does not fail and the request can fail only where
\* kv.put or queue.send rejects.
Accepted == http.phase # "none" /\ Len(http.runs) = 1

C35_AcceptedRequestsPassDomainValidation ==
  Accepted =>
    /\ NonBlank(input[1].theme) /\ Trimmed(input[1].theme)
    /\ NonBlank(input[1].brandVoice) /\ Trimmed(input[1].brandVoice)
    /\ Len(generate(startRun(input[1]).generating).hashtags) \in 1..3
    /\ pc[1] \notin {"idle", "generate"} =>
         /\ draft[1] # NoDraft
         /\ draft[1].hashtags = generate(startRun(input[1]).generating).hashtags
         /\ Len(draft[1].hashtags) <= MaxHashtags
    /\ result[1].kind = "error" => result[1].error \in {KvPutError, QueueSendError}
    /\ http.phase = "responded" /\ http.response.status = 400 =>
         http.response.body.error.message \in {KvPutError, QueueSendError}

\* An accepted request with a product whose tag repeats the tag of the
\* theme has been answered 201, its draft holding the two tags left.
C35_Witness ==
  /\ Accepted
  /\ http.phase = "responded" /\ http.response.status = 201
  /\ truthy(input[1].product)
  /\ Len(draft[1].hashtags) = 2
  /\ \E e \in kv : e.key = keyOf(http.response.body.id)

\* v is p with whitespace before and after it.
Padded(v, p) ==
  \E i, j \in 0..Len(v) : v = [k \in 1..i |-> WS] \o p \o [k \in 1..j |-> WS]

FormCalled == ui.call.via = "form" /\ ui.call.called

\* C31: the payload GenerationForm passes to onSubmit holds theme and
\* brandVoice of the form trimmed, and each of product, imagePrompt and
\* targetPersona trimmed, or undefined when the field is blank.
C31_FormSubmitsTrimmedValues ==
  FormCalled =>
    /\ \A f \in {"theme", "brandVoice"} :
         /\ Trimmed(ui.call.payload[f])
         /\ Padded(ui.call.values[f], ui.call.payload[f])
    /\ \A f \in {"product", "imagePrompt", "targetPersona"} :
         IF NonBlank(ui.call.values[f])
           THEN /\ Trimmed(ui.call.payload[f])
                /\ Padded(ui.call.values[f], ui.call.payload[f])
           ELSE ui.call.payload[f] = Undefined

\* The form was submitted with text padded with whitespace in a required
\* and in an optional field and with a blank optional field.
C31_Witness ==
  /\ FormCalled
  /\ ui.call.values.theme = <<" ", "s", " ">> /\ ui.call.payload.theme = <<"s">>
  /\ ui.call.values.product = <<" ", "x">> /\ ui.call.payload.product = <<"x">>
  /\ ui.call.values.imagePrompt = <<" ">> /\ ui.call.payload.imagePrompt = Undefined
  /\ ui.call.values.targetPersona = <<"y", " ">>

\* C32: canSubmit of the view model is true exactly when theme and
\* brandVoice both hold a character that is not whitespace, and
\* GenerationForm calls onSubmit only with canSubmit true and isSubmitting
\* false; a submit of the form in any other case calls nothing.
C32_SubmitOnlyWhenAllowed ==
  /\ canSubmit(ui.rendered.formValues) <=>
        (NonBlank(ui.rendered.formValues.theme) /\ NonBlank(ui.rendered.formValues.brandVoice))
  /\ ui.call.via = "form" =>
        /\ ui.call.canSubmit <=>
              (NonBlank(ui.call.values.theme) /\ NonBlank(ui.call.values.brandVoice))
        /\ ui.call.called <=> (ui.call.canSubmit /\ ~ui.call.isSubmitting)
        /\ ui.call.called => ui.call.started

\* The form was submitted while a request was awaited and while the theme
\* was blank: onSubmit was not called.
C32_Witness ==
  /\ ui.call.via = "form" /\ ~ui.call.called
  /\ ui.call.isSubmitting
  /\ ui.call.values.theme = <<" ">>
  /\ ui.fetching = 1

Awaited == ui.fetching + ui.parsing

\* The step calls submitDraft while a request is awaited.
CalledInFlight == Awaited > 0 /\ ui'.call.via # "none" /\ ui'.call.called

\* C37: at most one request to /api/v1/generate is in flight at any time: a
\* call of submitDraft (by the form or directly) made while a request has
\* not settled starts no second fetch and changes neither draft nor error.
C37_AtMostOneRequestInFlight ==
  /\ [](Awaited <= 1)
  /\ [][CalledInFlight =>
          /\ ui'.fetching = ui.fetching
          /\ ui'.draft = ui.draft /\ ui'.error = ui.error]_vars

\* C38: in the view model of useDraftGeneration, and in the state behind
\* it, draft and error are never both set.
C38_DraftAndErrorExclusive ==
  /\ ~(ui.draft # NullDraft /\ ui.error # JsNull)
  /\ ~(ui.rendered.draft # NullDraft /\ ui.rendered.error # JsNull)

\* The step is the end of a request: fetch or response.json() settles and
\* submitDraft runs to its end.
RequestEnds == ui'.fetching + ui'.parsing < Awaited

\* C39: every request submitDraft started sets isSubmitting back to false
\* when it settles, however it settles: the step that ends a request leaves
\* isSubmitting false, isSubmitting is false whenever no request is awaited,
\* and with a network on which every request settles isSubmitting is false
\* again and again.
C39_SubmittingEndsWithTheRequest ==
  /\ []<>(~ui.isSubmitting)
  /\ [](Awaited = 0 => ~ui.isSubmitting)
  /\ [][RequestEnds => ~ui'.isSubmitting]_vars

\* A request got an answer that was not ok: isSubmitting is false again
\* and no request is awaited, before React has rendered it.
C39_Witness ==
  /\ ~ui.isSubmitting /\ Awaited = 0
  /\ ui.error = NotOkError
  /\ ui.call = NoCall
  /\ ui.rendered.isSubmitting

====
